---- MODULE Spec2Model ----
(***************************************************************************)
(* ORT Insight: the result interpreter of the extension (ORTParser).       *)
(*                                                                         *)
(* JavaScript strings are sequences of one-character strings, so that      *)
(* String.prototype.includes, toLowerCase, Array.prototype.join and the    *)
(* template literals of the source are computed, not assumed.              *)
(* An optional value (T | undefined) is None (absent) or Some(v).          *)
(***************************************************************************)
EXTENDS Integers, Sequences, FiniteSets, TLC

VARIABLES
    config,      \* ORTParser.config: the classification lists read by config.get
    clsCalled,   \* TRUE once classifyLicenseRisk has been called
    clsLicense,  \* the argument of the last classifyLicenseRisk call
    clsRisk,     \* the LicenseRisk it returned
    ortResult,   \* the ORTResult handed to the parser
    stats,       \* the LicenseStats calculateLicenseStats returned for ortResult
    compliance,  \* the status getComplianceStatus returned for ortResult
    treeData,    \* the DependencyTreeItem[] buildDependencyTree returned
    phase,       \* buildDependencyTree: "idle", "building" or "done"
    frames,      \* the buildDependencyItem calls still to be made, next call first
    steps,       \* number of buildDependencyItem calls made by the running build
    files,       \* the file system: what each result file path holds
    parseOutcome,\* what the last parseResultFile call returned or threw
    changeEvents,\* number of onDidChangeTreeData events the provider has fired
    lastCall,    \* the most recent DependencyTreeProvider call and the file it saw
    settings,    \* the live 'ortInsight' settings of the workspace
    ortDir,      \* TRUE while the .ort directory of the workspace exists
    runs,        \* the runAnalyzer and runAdvisor invocations with their child processes
    statusBarText,        \* StatusBarProvider: the text of the status bar item
    packageLicenseMap,    \* DiagnosticsProvider.packageLicenseMap
    lastResult,           \* DiagnosticsProvider.lastResultFile and lastResultMtime
    diagnosticCollection, \* the diagnostics published for each document
    lastCommand  \* the most recent refresh, clear-cache or document event and what it did

vars == <<config, clsCalled, clsLicense, clsRisk, ortResult, stats, compliance,
          treeData, phase, frames, steps, files, parseOutcome, changeEvents, lastCall,
          settings, ortDir, runs, statusBarText, packageLicenseMap, lastResult,
          diagnosticCollection, lastCommand>>

\* the variables of the file system and of the tree provider
ioVars == <<files, parseOutcome, changeEvents, lastCall>>

\* the variables of the extension around the parser: settings, the .ort
\* directory, the ORT processes, the status bar and the diagnostics
extVars == <<settings, ortDir, runs, statusBarText, packageLicenseMap, lastResult,
             diagnosticCollection, lastCommand>>

-----------------------------------------------------------------------------
(* Bounds of the model *)

MaxListLen == 1      \* entries per configured license list
MaxPackages == 2     \* packages of a result
MaxProjects == 1     \* projects of a result
MaxIssues == 1       \* analyzer issues of a result
MaxVulns == 1        \* advisor vulnerabilities of a result

-----------------------------------------------------------------------------
(* Optional values and JavaScript strings *)

None == <<>>
Some(v) == <<v>>
IsSome(o) == o /= <<>>
Get(o) == o[1]

\* Seq(S) restricted to length <= n
SeqsUpTo(S, n) == UNION {[1..k -> S] : k \in 0..n}

UpperCase == <<"A","B","C","D","E","F","G","H","I","J","K","L","M",
               "N","O","P","Q","R","S","T","U","V","W","X","Y","Z">>
LowerCase == <<"a","b","c","d","e","f","g","h","i","j","k","l","m",
               "n","o","p","q","r","s","t","u","v","w","x","y","z">>

toLowerChar(c) ==
    IF \E i \in 1..Len(UpperCase) : UpperCase[i] = c
    THEN LowerCase[CHOOSE i \in 1..Len(UpperCase) : UpperCase[i] = c]
    ELSE c

\* String.prototype.toLowerCase
toLowerCase(s) == [i \in 1..Len(s) |-> toLowerChar(s[i])]

\* String.prototype.includes: sub occurs in s at some position
includes(s, sub) ==
    \E i \in 1..(Len(s) - Len(sub) + 1) : SubSeq(s, i, i + Len(sub) - 1) = sub

\* Array.prototype.join
RECURSIVE join(_, _)
join(list, sep) ==
    IF list = <<>> THEN <<>>
    ELSE IF Len(list) = 1 THEN list[1]
    ELSE list[1] \o sep \o join(Tail(list), sep)

\* list.some(l => license.includes(l))
someIncluded(list, license) == \E i \in 1..Len(list) : includes(license, list[i])

-----------------------------------------------------------------------------
(* String literals of the source and of the inputs *)

sMIT == <<"M","I","T">>
sGPL3 == <<"G","P","L","-","3",".","0">>
sLGPL3 == <<"L","G","P","L","-","3",".","0">>
sGPL3only == <<"G","P","L","-","3",".","0","-","o","n","l","y">>
sEmpty == <<>>
sCustom == <<"C","u","s","t","o","m">>
sProprietaryCap == <<"P","r","o","p","r","i","e","t","a","r","y">>
sproprietary == <<"p","r","o","p","r","i","e","t","a","r","y">>
sOR == <<" ","O","R"," ">>
sMITorGPL3 == sMIT \o sOR \o sGPL3
sProprietaryOrMIT == sProprietaryCap \o sOR \o sMIT
sconstructor == <<"c","o","n","s","t","r","u","c","t","o","r">>
s__proto__ == <<"_","_","p","r","o","t","o","_","_">>

-----------------------------------------------------------------------------
(* ORTParser.classifyLicenseRisk *)

\* JavaScript truthiness of a string | undefined
Truthy(license) == IsSome(license) /\ Get(license) /= sEmpty

classifyLicenseRisk_SwapCopyleft(cfg, license) ==
    IF ~Truthy(license) THEN "unknown"
    ELSE LET l == Get(license) IN
         IF someIncluded(cfg.permissiveLicenses, l) THEN "permissive"
         ELSE IF someIncluded(cfg.strongCopyleftLicenses, l) THEN "strong-copyleft"
         ELSE IF someIncluded(cfg.weakCopyleftLicenses, l) THEN "weak-copyleft"
         ELSE IF includes(toLowerCase(l), sproprietary) THEN "proprietary"
         ELSE "unknown"

classifyLicenseRisk_LowerCased(cfg, license) ==
    IF ~Truthy(license) THEN "unknown"
    ELSE LET l == toLowerCase(Get(license)) IN
         IF someIncluded(cfg.permissiveLicenses, l) THEN "permissive"
         ELSE IF someIncluded(cfg.weakCopyleftLicenses, l) THEN "weak-copyleft"
         ELSE IF someIncluded(cfg.strongCopyleftLicenses, l) THEN "strong-copyleft"
         ELSE IF includes(l, sproprietary) THEN "proprietary"
         ELSE "unknown"

classifyLicenseRisk_ProprietaryFirst(cfg, license) ==
    IF ~Truthy(license) THEN "unknown"
    ELSE LET l == Get(license) IN
         IF includes(toLowerCase(l), sproprietary) THEN "proprietary"
         ELSE IF someIncluded(cfg.permissiveLicenses, l) THEN "permissive"
         ELSE IF someIncluded(cfg.weakCopyleftLicenses, l) THEN "weak-copyleft"
         ELSE IF someIncluded(cfg.strongCopyleftLicenses, l) THEN "strong-copyleft"
         ELSE "unknown"

classifyLicenseRisk(cfg, license) ==
    IF ~Truthy(license) THEN "unknown"
    ELSE LET l == Get(license) IN
         IF someIncluded(cfg.permissiveLicenses, l) THEN "permissive"
         ELSE IF someIncluded(cfg.weakCopyleftLicenses, l) THEN "weak-copyleft"
         ELSE IF someIncluded(cfg.strongCopyleftLicenses, l) THEN "strong-copyleft"
         ELSE IF includes(toLowerCase(l), sproprietary) THEN "proprietary"
         ELSE "unknown"

-----------------------------------------------------------------------------
(* Inputs of the classifier *)

\* strings a user may put into the three configured lists
ConfigEntries == {sMIT, sGPL3, sLGPL3, sEmpty}

Configs ==
    [permissiveLicenses : SeqsUpTo(ConfigEntries, MaxListLen),
     weakCopyleftLicenses : SeqsUpTo(ConfigEntries, MaxListLen),
     strongCopyleftLicenses : SeqsUpTo(ConfigEntries, MaxListLen)]

\* the lists of the documented default configuration that the inputs touch
DefaultConfig ==
    [permissiveLicenses |-> <<sMIT>>,
     weakCopyleftLicenses |-> <<sLGPL3>>,
     strongCopyleftLicenses |-> <<sGPL3>>]

LicenseInputs ==
    {None} \cup
    {Some(s) : s \in {sEmpty, sMIT, sGPL3, sLGPL3, sGPL3only, sMITorGPL3, sCustom,
                      sProprietaryCap, sproprietary, sProprietaryOrMIT}}

-----------------------------------------------------------------------------
(* Identifiers, packages, projects and results (src/types.ts) *)

sColon == <<":">>
sN == <<"N">>

Identifier(type, namespace, name, version) ==
    [type |-> type, namespace |-> namespace, name |-> name, version |-> version]

idA == Identifier(sN, sEmpty, <<"a">>, <<"1">>)
idB == Identifier(sN, sEmpty, <<"b">>, <<"1">>)
idC == Identifier(sN, sEmpty, <<"c">>, <<"1">>)
idP == Identifier(sN, sEmpty, <<"p">>, <<"1">>)
idQ == Identifier(sN, sEmpty, <<"q">>, <<"1">>)

\* ORTParser.getIdentifierKey: `${id.type}:${id.namespace}:${id.name}:${id.version}`
getIdentifierKey(id) ==
    id.type \o sColon \o id.namespace \o sColon \o id.name \o sColon \o id.version

\* a Package: declared_licenses and declared_licenses_processed may be missing
\* from the JSON; spdx_expression is optional inside declared_licenses_processed
Package(id, declared, processed) ==
    [id |-> id, declared_licenses |-> declared, declared_licenses_processed |-> processed]

Spdx(s) == Some([spdx_expression |-> Some(s)])
NoSpdx == Some([spdx_expression |-> None])

\* a DependencyNode of a scope; its dependencies are DependencyReferences;
\* the builder tolerates a node without dependencies or issues
DependencyNode(id, refs, issues) ==
    [id |-> id, dependencies |-> refs, issues |-> issues]
DependencyReference(id) == [id |-> id]

Project(id, declared, processed, scopes) ==
    [id |-> id, declared_licenses |-> declared, declared_licenses_processed |-> processed,
     scope_dependencies |-> scopes]

-----------------------------------------------------------------------------
(* ORTParser.extractLicense *)

extractLicense_DeclaredFirst(pkg) ==
    IF IsSome(pkg.declared_licenses) /\ Len(Get(pkg.declared_licenses)) > 0
    THEN Some(join(Get(pkg.declared_licenses), sOR))
    ELSE IF /\ IsSome(pkg.declared_licenses_processed)
            /\ Truthy(Get(pkg.declared_licenses_processed).spdx_expression)
    THEN Get(pkg.declared_licenses_processed).spdx_expression
    ELSE None

extractLicense(pkg) ==
    IF /\ IsSome(pkg.declared_licenses_processed)
       /\ Truthy(Get(pkg.declared_licenses_processed).spdx_expression)
    THEN Get(pkg.declared_licenses_processed).spdx_expression
    ELSE IF IsSome(pkg.declared_licenses) /\ Len(Get(pkg.declared_licenses)) > 0
    THEN Some(join(Get(pkg.declared_licenses), sOR))
    ELSE None

-----------------------------------------------------------------------------
(* stats.byLicense is a plain JavaScript object: a key that is not an own    *)
(* property is looked up on Object.prototype.  A value is a number or, after *)
(* `<inherited function> + 1`, a string.                                     *)

ObjectPrototypeKeys ==
    {<<"c","o","n","s","t","r","u","c","t","o","r">>,
     <<"_","_","p","r","o","t","o","_","_">>,
     <<"_","_","d","e","f","i","n","e","G","e","t","t","e","r","_","_">>,
     <<"_","_","d","e","f","i","n","e","S","e","t","t","e","r","_","_">>,
     <<"_","_","l","o","o","k","u","p","G","e","t","t","e","r","_","_">>,
     <<"_","_","l","o","o","k","u","p","S","e","t","t","e","r","_","_">>,
     <<"h","a","s","O","w","n","P","r","o","p","e","r","t","y">>,
     <<"i","s","P","r","o","t","o","t","y","p","e","O","f">>,
     <<"p","r","o","p","e","r","t","y","I","s","E","n","u","m","e","r","a","b","l","e">>,
     <<"t","o","L","o","c","a","l","e","S","t","r","i","n","g">>,
     <<"t","o","S","t","r","i","n","g">>,
     <<"v","a","l","u","e","O","f">>}
Number(n) == [isNumber |-> TRUE, n |-> n]
NotANumber == [isNumber |-> FALSE, n |-> 0]

\* (stats.byLicense[license] || 0) + 1
byLicenseNext(byLicense, license) ==
    IF license \in DOMAIN byLicense
    THEN IF byLicense[license].isNumber THEN Number(byLicense[license].n + 1)
         ELSE NotANumber
    ELSE IF license \in ObjectPrototypeKeys THEN NotANumber
    ELSE Number(1)

\* stats.byLicense[license] = v; the __proto__ setter ignores a primitive
byLicenseSet(byLicense, license, v) ==
    IF license = s__proto__ THEN byLicense
    ELSE [k \in (DOMAIN byLicense) \cup {license} |->
              IF k = license THEN v ELSE byLicense[k]]

-----------------------------------------------------------------------------
(* ORTParser.calculateLicenseStats *)

ZeroStats ==
    [total |-> 0, permissive |-> 0, weakCopyleft |-> 0, strongCopyleft |-> 0,
     unknown |-> 0, byLicense |-> <<>>]

OrEmpty(o) == IF IsSome(o) THEN Get(o) ELSE <<>>

\* ortResult.analyzer?.result
analyzerResult(result) ==
    IF IsSome(result.analyzer) THEN Get(result.analyzer).result ELSE None

\* the switch on the risk of one entry
countRisk_NoDefault(s, risk) ==
    [s EXCEPT !.permissive = @ + (IF risk = "permissive" THEN 1 ELSE 0),
              !.weakCopyleft = @ + (IF risk = "weak-copyleft" THEN 1 ELSE 0),
              !.strongCopyleft = @ + (IF risk = "strong-copyleft" THEN 1 ELSE 0),
              !.unknown = @ + (IF risk = "unknown" THEN 1 ELSE 0)]

countRisk(s, risk) ==
    [s EXCEPT !.permissive = @ + (IF risk = "permissive" THEN 1 ELSE 0),
              !.weakCopyleft = @ + (IF risk = "weak-copyleft" THEN 1 ELSE 0),
              !.strongCopyleft = @ + (IF risk = "strong-copyleft" THEN 1 ELSE 0),
              !.unknown = @ + (IF risk \notin {"permissive", "weak-copyleft", "strong-copyleft"}
                               THEN 1 ELSE 0)]

\* the `if (license)` at the end of the loop body
countLicense_Always(s, license) ==
    LET key == IF IsSome(license) THEN Get(license) ELSE <<"u","n","d","e","f","i","n","e","d">>
    IN [s EXCEPT !.byLicense = byLicenseSet(@, key, byLicenseNext(@, key))]

countLicense(s, license) ==
    IF Truthy(license)
    THEN [s EXCEPT !.byLicense =
              byLicenseSet(@, Get(license), byLicenseNext(@, Get(license)))]
    ELSE s

\* the body of `for (const pkg of allPackages)`, applied from left to right
RECURSIVE statsLoop(_, _, _)
statsLoop(cfg, allPackages, s) ==
    IF allPackages = <<>> THEN s
    ELSE LET pkg == Head(allPackages)
             license == extractLicense(pkg)
             risk == classifyLicenseRisk(cfg, license)
             counted == countRisk([s EXCEPT !.total = @ + 1], risk)
         IN statsLoop(cfg, Tail(allPackages), countLicense(counted, license))

\* [...(projects || []), ...(packages || [])]
allPackagesOf_PackagesOnly(run) == OrEmpty(run.packages)

allPackagesOf(run) == OrEmpty(run.projects) \o OrEmpty(run.packages)

calculateLicenseStats(cfg, result) ==
    IF ~IsSome(analyzerResult(result)) THEN ZeroStats
    ELSE statsLoop(cfg, allPackagesOf(Get(analyzerResult(result))), ZeroStats)

-----------------------------------------------------------------------------
(* ORTParser.getAllVulnerabilities and ORTParser.getComplianceStatus *)

\* advisorResult?.advisories: the entries of the advisories object in key order,
\* each [pkgId, advisories]
advisoriesOf(advisor) ==
    IF IsSome(advisor) THEN OrEmpty(Get(advisor).advisories) ELSE <<>>

RECURSIVE vulnerabilitiesOfAdvisories(_)
vulnerabilitiesOfAdvisories(advisories) ==
    IF advisories = <<>> THEN <<>>
    ELSE OrEmpty(Head(advisories).vulnerabilities)
             \o vulnerabilitiesOfAdvisories(Tail(advisories))

RECURSIVE flattenEntries(_)
flattenEntries(entries) ==
    IF entries = <<>> THEN <<>>
    ELSE vulnerabilitiesOfAdvisories(Head(entries).advisories)
             \o flattenEntries(Tail(entries))

getAllVulnerabilities(advisor) == flattenEntries(advisoriesOf(advisor))

\* ortResult.analyzer?.result?.issues || []
issuesOf(result) ==
    IF IsSome(analyzerResult(result)) THEN OrEmpty(Get(analyzerResult(result)).issues)
    ELSE <<>>

\* the if / else-if chain that picks status and message
pickStatus_IssuesFirst(licenseStats, nIssues, nVulns) ==
    IF nIssues > 0 \/ nVulns > 0
    THEN [status |-> "issues", message |-> <<nIssues, "issue(s)", nVulns, "vulnerability(ies) found">>]
    ELSE IF licenseStats.strongCopyleft > 0
    THEN [status |-> "critical",
          message |-> <<licenseStats.strongCopyleft, "strong copyleft license(s) detected">>]
    ELSE IF licenseStats.unknown > 0
    THEN [status |-> "issues",
          message |-> <<licenseStats.unknown, "package(s) with unknown licenses">>]
    ELSE [status |-> "compliant", message |-> <<"All dependencies are compliant">>]

pickStatus_UnknownStatus(licenseStats, nIssues, nVulns) ==
    IF licenseStats.strongCopyleft > 0
    THEN [status |-> "critical",
          message |-> <<licenseStats.strongCopyleft, "strong copyleft license(s) detected">>]
    ELSE IF nIssues > 0 \/ nVulns > 0
    THEN [status |-> "issues", message |-> <<nIssues, "issue(s)", nVulns, "vulnerability(ies) found">>]
    ELSE IF licenseStats.unknown > 0
    THEN [status |-> "unknown",
          message |-> <<licenseStats.unknown, "package(s) with unknown licenses">>]
    ELSE [status |-> "compliant", message |-> <<"All dependencies are compliant">>]

pickStatus(licenseStats, nIssues, nVulns) ==
    IF licenseStats.strongCopyleft > 0
    THEN [status |-> "critical",
          message |-> <<licenseStats.strongCopyleft, "strong copyleft license(s) detected">>]
    ELSE IF nIssues > 0 \/ nVulns > 0
    THEN [status |-> "issues", message |-> <<nIssues, "issue(s)", nVulns, "vulnerability(ies) found">>]
    ELSE IF licenseStats.unknown > 0
    THEN [status |-> "issues",
          message |-> <<licenseStats.unknown, "package(s) with unknown licenses">>]
    ELSE [status |-> "compliant", message |-> <<"All dependencies are compliant">>]

getComplianceStatus(cfg, result) ==
    LET licenseStats == calculateLicenseStats(cfg, result)
        issues == issuesOf(result)
        vulnerabilities == getAllVulnerabilities(result.advisor)
        picked == pickStatus(licenseStats, Len(issues), Len(vulnerabilities))
    IN [status |-> picked.status,
        message |-> picked.message,
        details |-> [totalPackages |-> licenseStats.total,
                     issuesCount |-> Len(issues),
                     vulnerabilitiesCount |-> Len(vulnerabilities),
                     licenseStats |-> licenseStats]]

-----------------------------------------------------------------------------
(* Values of the variables a specification does not use *)

NoResult == [analyzer |-> None, advisor |-> None]
NoCompliance == [status |-> "none", message |-> <<>>, details |-> <<>>]

BuilderIdle ==
    /\ treeData = <<>>
    /\ phase = "idle"
    /\ frames = <<>>
    /\ steps = 0

ParserIdle ==
    /\ ortResult = NoResult
    /\ stats = ZeroStats
    /\ compliance = NoCompliance
    /\ BuilderIdle

ClassifierIdle ==
    /\ clsCalled = FALSE
    /\ clsLicense = None
    /\ clsRisk = "unknown"

\* parseResultFile has not been called: file is the file a call found at its
\* path, returned the parsed document, thrown the message of the Error
NoOutcome == [called |-> FALSE, file |-> None, returned |-> None, thrown |-> None]
\* no provider call yet: n counts the calls, shown is the error message shown
NoCall == [op |-> "none", n |-> 0, file |-> None, shown |-> None]

IoIdle ==
    /\ files = <<>>
    /\ parseOutcome = NoOutcome
    /\ changeEvents = 0
    /\ lastCall = NoCall

\* the settings as documented: the default lists, diagnostics enabled
DefaultSettings == [classification |-> DefaultConfig, enableDiagnostics |-> TRUE]

\* the text of the status bar item behind its icon
StatusText(parts) == <<"ORT Insight:">> \o parts
NotAnalyzed == StatusText(<<"Not analyzed">>)

\* DiagnosticsProvider before its first load
NoLastResult == [file |-> None, mtime |-> 0]
\* no command yet: n counts the commands and events
NoCommand ==
    [op |-> "none", n |-> 0, answer |-> "none", outcome |-> "none", document |-> "none",
     cleared |-> FALSE]

\* no workspace result, no ORT process, the providers as constructed
ExtensionIdle ==
    /\ ortDir = FALSE
    /\ runs = <<>>
    /\ statusBarText = NotAnalyzed
    /\ packageLicenseMap = <<>>
    /\ lastResult = NoLastResult
    /\ diagnosticCollection = <<>>
    /\ lastCommand = NoCommand

ExtIdle ==
    /\ settings = DefaultSettings
    /\ ExtensionIdle

-----------------------------------------------------------------------------
(* SpecClassify: one parser, any configuration, classifyLicenseRisk called   *)
(* with any license text                                                     *)

InitClassify ==
    /\ config \in Configs
    /\ ClassifierIdle
    /\ ParserIdle
    /\ IoIdle
    /\ ExtIdle

ClassifyCall(l) ==
    /\ clsCalled' = TRUE
    /\ clsLicense' = l
    /\ clsRisk' = classifyLicenseRisk(config, l)
    /\ UNCHANGED <<config, ortResult, stats, compliance, treeData, phase, frames, steps>>
    /\ UNCHANGED <<ioVars, extVars>>

NextClassify == \E l \in LicenseInputs : ClassifyCall(l)

SpecClassify == InitClassify /\ [][NextClassify]_vars

-----------------------------------------------------------------------------
(* Inputs of the aggregator: packages and projects by license shape *)

pkgMIT == Package(idA, Some(<<sMIT>>), Spdx(sMIT))
pkgGPL == Package(idB, Some(<<sGPL3only>>), Spdx(sGPL3only))
pkgLGPL == Package(idC, Some(<<sLGPL3>>), NoSpdx)
pkgProprietary == Package(idB, None, Spdx(sProprietaryCap))
pkgUnlicensed == Package(idC, Some(<<>>), NoSpdx)
pkgEmptyLicense == Package(idA, Some(<<sEmpty>>), Spdx(sEmpty))
pkgConstructor == Package(idB, Some(<<sconstructor>>), None)

PackageUniverse ==
    {pkgMIT, pkgGPL, pkgLGPL, pkgProprietary, pkgUnlicensed, pkgEmptyLicense,
     pkgConstructor}

scopeDependencies ==
    [name |-> <<"d","e","p","s">>,
     dependencies |-> <<DependencyNode(idA, Some(<<DependencyReference(idB)>>), Some(<<>>)),
                        DependencyNode(idC, Some(<<>>), Some(<<>>))>>]

projMIT == Project(idP, Some(<<sMIT>>), Spdx(sMIT), Some(<<scopeDependencies>>))
projDual == Project(idQ, Some(<<sMIT, sGPL3>>), NoSpdx, None)

ProjectUniverse == {projMIT, projDual}

issueWarning == [source |-> "NPM", severity |-> "WARNING"]

AdvisoryUniverse ==
    {[vulnerabilities |-> Some(<<"CVE-1">>)], [vulnerabilities |-> None]}

AnalyzerRun(projects, packages, issues) ==
    [projects |-> projects, packages |-> packages, issues |-> issues]

ResultOf(run, advisor) == [analyzer |-> Some([result |-> run]), advisor |-> advisor]

\* createMinimalORTResult(): empty projects, packages and issues, no advisor
minimalResult == ResultOf(Some(AnalyzerRun(Some(<<>>), Some(<<>>), Some(<<>>))), None)
\* analyzer.result absent
resultAbsent == ResultOf(None, None)
\* analyzer.result present, its lists absent
listsAbsent == ResultOf(Some(AnalyzerRun(None, None, None)), None)

InitialResults == {minimalResult, resultAbsent, listsAbsent}

-----------------------------------------------------------------------------
(* Spec: a result is built up entry by entry, as the unit tests do, and the  *)
(* parser computes its statistics and compliance status after each change    *)

Evaluated(result) ==
    /\ ortResult' = result
    /\ stats' = calculateLicenseStats(config, result)
    /\ compliance' = getComplianceStatus(config, result)
    /\ UNCHANGED <<config, clsCalled, clsLicense, clsRisk, treeData, phase, frames, steps>>
    /\ UNCHANGED <<ioVars, extVars>>

Init ==
    /\ config = DefaultConfig
    /\ ClassifierIdle
    /\ ortResult \in InitialResults
    /\ stats = calculateLicenseStats(config, ortResult)
    /\ compliance = getComplianceStatus(config, ortResult)
    /\ BuilderIdle
    /\ IoIdle
    /\ ExtIdle

WithRun(result, run) == [result EXCEPT !.analyzer = Some([result |-> Some(run)])]

\* ortResult.analyzer.result.packages = [..., p]
AddPackage(p) ==
    /\ IsSome(analyzerResult(ortResult))
    /\ LET run == Get(analyzerResult(ortResult)) IN
       /\ Len(OrEmpty(run.packages)) < MaxPackages
       /\ Evaluated(WithRun(ortResult,
              [run EXCEPT !.packages = Some(Append(OrEmpty(run.packages), p))]))

\* ortResult.analyzer.result.projects = [..., p]
AddProject(p) ==
    /\ IsSome(analyzerResult(ortResult))
    /\ LET run == Get(analyzerResult(ortResult)) IN
       /\ Len(OrEmpty(run.projects)) < MaxProjects
       /\ Evaluated(WithRun(ortResult,
              [run EXCEPT !.projects = Some(Append(OrEmpty(run.projects), p))]))

\* ortResult.analyzer.result.issues = [..., i]
AddIssue(i) ==
    /\ IsSome(analyzerResult(ortResult))
    /\ LET run == Get(analyzerResult(ortResult)) IN
       /\ Len(OrEmpty(run.issues)) < MaxIssues
       /\ Evaluated(WithRun(ortResult,
              [run EXCEPT !.issues = Some(Append(OrEmpty(run.issues), i))]))

\* number of advisories held by the advisor section
RECURSIVE advisoryCount(_)
advisoryCount(entries) ==
    IF entries = <<>> THEN 0
    ELSE Len(Head(entries).advisories) + advisoryCount(Tail(entries))

\* ortResult.advisor.advisories[pkgId] = [..., adv]
AddAdvisory(pkgId, adv) ==
    LET entries == advisoriesOf(ortResult.advisor)
        known == \E i \in 1..Len(entries) : entries[i].pkgId = pkgId
        added == IF known
                 THEN [i \in 1..Len(entries) |->
                          IF entries[i].pkgId = pkgId
                          THEN [entries[i] EXCEPT !.advisories = Append(@, adv)]
                          ELSE entries[i]]
                 ELSE Append(entries, [pkgId |-> pkgId, advisories |-> <<adv>>])
    IN /\ advisoryCount(entries) < MaxVulns
       /\ Evaluated([ortResult EXCEPT !.advisor = Some([advisories |-> Some(added)])])

Next ==
    \/ \E p \in PackageUniverse : AddPackage(p)
    \/ \E p \in ProjectUniverse : AddProject(p)
    \/ AddIssue(issueWarning)
    \/ \E adv \in AdvisoryUniverse : AddAdvisory(getIdentifierKey(idA), adv)

Spec == Init /\ [][Next]_vars

-----------------------------------------------------------------------------
(* Claims about classifyLicenseRisk *)

\* e occurs in l as a contiguous run of characters starting after position i
Occurs(e, l) ==
    \E i \in 0..Len(l) :
        /\ i + Len(e) <= Len(l)
        /\ \A k \in 1..Len(e) : l[i + k] = e[k]

Entries(list) == {list[i] : i \in 1..Len(list)}
Hit(list, l) == \E e \in Entries(list) : Occurs(e, l)

\* C3: the text is tested by containment against the permissive, then the
\* weak-copyleft, then the strong-copyleft list; the first list with an entry
\* contained in the text decides, also when later lists have one too.
C3_FirstListWins ==
    (clsCalled /\ Truthy(clsLicense)) =>
        LET l == Get(clsLicense)
            p == Hit(config.permissiveLicenses, l)
            w == Hit(config.weakCopyleftLicenses, l)
            s == Hit(config.strongCopyleftLicenses, l)
        IN /\ p => clsRisk = "permissive"
           /\ (~p /\ w) => clsRisk = "weak-copyleft"
           /\ (~p /\ ~w /\ s) => clsRisk = "strong-copyleft"
           /\ clsRisk \in {"permissive", "weak-copyleft", "strong-copyleft"} => (p \/ w \/ s)

\* a text holding entries of the weak and of the strong list was classified
C3_Witness ==
    /\ clsCalled
    /\ clsLicense = Some(sLGPL3)
    /\ config.weakCopyleftLicenses = <<sLGPL3>>
    /\ config.strongCopyleftLicenses = <<sGPL3>>
    /\ config.permissiveLicenses = <<>>
    /\ clsRisk = "weak-copyleft"

\* C4 as stated: a license string that is an entry of a configured list gets
\* the category of that list, for every configuration.
C4_EntryGetsItsCategory ==
    (clsCalled /\ IsSome(clsLicense)) =>
        LET l == Get(clsLicense) IN
        /\ l \in Entries(config.permissiveLicenses) => clsRisk = "permissive"
        /\ l \in Entries(config.weakCopyleftLicenses) => clsRisk = "weak-copyleft"
        /\ l \in Entries(config.strongCopyleftLicenses) => clsRisk = "strong-copyleft"

\* C4 amended: a non-empty license string that is an entry of a configured
\* list gets the category of that list when no entry of a list of earlier
\* precedence is contained in it.
C4_EntryGetsItsCategoryUnlessShadowed ==
    (clsCalled /\ Truthy(clsLicense)) =>
        LET l == Get(clsLicense)
            p == Hit(config.permissiveLicenses, l)
            w == Hit(config.weakCopyleftLicenses, l)
        IN /\ l \in Entries(config.permissiveLicenses) => clsRisk = "permissive"
           /\ (l \in Entries(config.weakCopyleftLicenses) /\ ~p) => clsRisk = "weak-copyleft"
           /\ (l \in Entries(config.strongCopyleftLicenses) /\ ~p /\ ~w)
                  => clsRisk = "strong-copyleft"

\* an entry of the strong-copyleft list was classified while the other lists
\* hold entries that are not contained in it
C4_Witness ==
    /\ clsCalled
    /\ clsLicense = Some(sGPL3)
    /\ config.strongCopyleftLicenses = <<sGPL3>>
    /\ config.weakCopyleftLicenses = <<sLGPL3>>
    /\ config.permissiveLicenses = <<sMIT>>
    /\ clsRisk = "strong-copyleft"

\* C5: absent or empty gives unknown; a non-empty text no list matches gives
\* proprietary exactly when its lower-cased text contains "proprietary", and
\* unknown otherwise; proprietary is never the answer when a list matches.
C5_Fallback ==
    clsCalled =>
        LET anyHit == /\ IsSome(clsLicense)
                      /\ \/ Hit(config.permissiveLicenses, Get(clsLicense))
                         \/ Hit(config.weakCopyleftLicenses, Get(clsLicense))
                         \/ Hit(config.strongCopyleftLicenses, Get(clsLicense))
        IN /\ ~Truthy(clsLicense) => clsRisk = "unknown"
           /\ (Truthy(clsLicense) /\ ~anyHit) =>
                  clsRisk = IF Occurs(sproprietary, toLowerCase(Get(clsLicense)))
                            THEN "proprietary" ELSE "unknown"
           /\ clsRisk = "proprietary" => ~anyHit

\* a capitalised "Proprietary" that no list matches was classified
C5_Witness ==
    /\ clsCalled
    /\ clsLicense = Some(sProprietaryCap)
    /\ config.permissiveLicenses = <<sMIT>>
    /\ clsRisk = "proprietary"

-----------------------------------------------------------------------------
(* Claims about calculateLicenseStats and getComplianceStatus *)

\* the projects and packages of the result, as one list
AllEntries ==
    IF IsSome(analyzerResult(ortResult))
    THEN OrEmpty(Get(analyzerResult(ortResult)).projects)
             \o OrEmpty(Get(analyzerResult(ortResult)).packages)
    ELSE <<>>

PackagesNow == IF IsSome(analyzerResult(ortResult))
               THEN OrEmpty(Get(analyzerResult(ortResult)).packages) ELSE <<>>
ProjectsNow == IF IsSome(analyzerResult(ortResult))
               THEN OrEmpty(Get(analyzerResult(ortResult)).projects) ELSE <<>>

IssueCount ==
    IF IsSome(ortResult.analyzer) /\ IsSome(Get(ortResult.analyzer).result)
          /\ IsSome(Get(Get(ortResult.analyzer).result).issues)
    THEN Len(Get(Get(Get(ortResult.analyzer).result).issues))
    ELSE 0

\* one element per vulnerability recorded anywhere in the advisor section
VulnerabilityPositions ==
    IF IsSome(ortResult.advisor) /\ IsSome(Get(ortResult.advisor).advisories)
    THEN LET es == Get(Get(ortResult.advisor).advisories) IN
         UNION {UNION {{<<i, j, k>> :
                          k \in 1..(IF IsSome(es[i].advisories[j].vulnerabilities)
                                    THEN Len(Get(es[i].advisories[j].vulnerabilities))
                                    ELSE 0)} :
                       j \in 1..Len(es[i].advisories)} :
                i \in 1..Len(es)}
    ELSE {}

VulnerabilityCount == Cardinality(VulnerabilityPositions)

RiskOfEntry(e) == classifyLicenseRisk(config, extractLicense(e))

\* C1: the status follows the precedence strong copyleft > issues or
\* vulnerabilities > unknown licenses > compliant, and is never 'unknown'.
C1_StatusPrecedence ==
    /\ compliance.status =
          IF stats.strongCopyleft > 0 THEN "critical"
          ELSE IF IssueCount > 0 \/ VulnerabilityCount > 0 THEN "issues"
          ELSE IF stats.unknown > 0 THEN "issues"
          ELSE "compliant"
    /\ compliance.status /= "unknown"

\* a result with a strong-copyleft package, an issue and a vulnerability
C1_Witness ==
    /\ stats.strongCopyleft > 0
    /\ IssueCount > 0
    /\ VulnerabilityCount > 0
    /\ stats.unknown > 0
    /\ compliance.status = "critical"

\* C2: adding a package classified strong-copyleft makes the status critical,
\* and no later addition of a package, project, issue or advisory changes a
\* critical status.
C2_CriticalIsMonotonic ==
    [][/\ (/\ Len(PackagesNow') = Len(PackagesNow) + 1
           /\ RiskOfEntry(PackagesNow'[Len(PackagesNow')]) = "strong-copyleft")
          => compliance'.status = "critical"
       /\ compliance.status = "critical" => compliance'.status = "critical"]_vars

\* a strong-copyleft package was added first, then a permissive package, an
\* issue and a vulnerability
C2_Witness ==
    /\ PackagesNow = <<pkgGPL, pkgMIT>>
    /\ config = DefaultConfig
    /\ IssueCount = 1
    /\ VulnerabilityCount = 1
    /\ compliance.status = "critical"

\* C6: the four buckets sum to total, and an entry classified proprietary is
\* counted in the unknown bucket.
C6_BucketsSumToTotal ==
    /\ stats.permissive + stats.weakCopyleft + stats.strongCopyleft + stats.unknown
          = stats.total
    /\ stats.unknown =
          Cardinality({i \in 1..Len(AllEntries) :
                          RiskOfEntry(AllEntries[i]) \in {"unknown", "proprietary"}})

\* a proprietary package was counted next to a permissive one
C6_Witness ==
    /\ PackagesNow = <<pkgProprietary, pkgMIT>>
    /\ config = DefaultConfig
    /\ stats.unknown = 1
    /\ stats.total = 2

\* C7: total is the number of projects plus the number of packages, whatever
\* the projects' dependency scopes reference; without entries, and without
\* analyzer.result, every count is 0 and byLicense is empty.
C7_TotalCountsFlatLists ==
    /\ stats.total = Len(ProjectsNow) + Len(PackagesNow)
    /\ (Len(ProjectsNow) + Len(PackagesNow) = 0) => stats = ZeroStats
    /\ ~IsSome(analyzerResult(ortResult)) => stats = ZeroStats

\* a project whose scope names three dependencies, with no package listed
C7_Witness ==
    /\ ProjectsNow = <<projMIT>>
    /\ PackagesNow = <<>>
    /\ stats.total = 1

\* the numeric counts of byLicense, summed
RECURSIVE SumNumbers(_, _)
SumNumbers(byLicense, keys) ==
    IF keys = {} THEN 0
    ELSE LET k == CHOOSE x \in keys : TRUE IN
         (IF byLicense[k].isNumber THEN byLicense[k].n ELSE 0)
             + SumNumbers(byLicense, keys \ {k})

ByLicenseSum == SumNumbers(stats.byLicense, DOMAIN stats.byLicense)

\* the entries whose extracted license is the non-empty string l
EntriesLicensed(l) ==
    {i \in 1..Len(AllEntries) : extractLicense(AllEntries[i]) = Some(l)}

-----------------------------------------------------------------------------
(* The tree builder: ORTParser.buildDependencyTree and its helpers *)

sAt == <<"@">>
sProjectSuffix == <<" ","(","P","r","o","j","e","c","t",")">>
Digits == <<"0","1","2","3","4","5","6","7","8","9">>

\* the decimal text a template literal gives a non-negative integer
RECURSIVE NatToString(_)
NatToString(n) ==
    IF n < 10 THEN <<Digits[n + 1]>>
    ELSE NatToString(n \div 10) \o <<Digits[(n % 10) + 1]>>

\* ORTParser.buildPackageMap: map.set(key, pkg) in list order, so the last
\* package of a key is the one kept
buildPackageMap_Empty(packages) == <<>>

buildPackageMap(packages) ==
    [k \in {getIdentifierKey(packages[i].id) : i \in 1..Len(packages)} |->
        LET last == CHOOSE i \in 1..Len(packages) :
                        /\ getIdentifierKey(packages[i].id) = k
                        /\ \A j \in (i + 1)..Len(packages) :
                               getIdentifierKey(packages[j].id) /= k
        IN packages[last]]

\* ORTParser.buildVulnerabilityMap: a key is set only when its advisories
\* hold at least one vulnerability
buildVulnerabilityMap(advisor) ==
    LET entries == advisoriesOf(advisor)
        withVulns == {i \in 1..Len(entries) :
                         Len(vulnerabilitiesOfAdvisories(entries[i].advisories)) > 0}
    IN [k \in {entries[i].pkgId : i \in withVulns} |->
           LET i == CHOOSE x \in withVulns : entries[x].pkgId = k
           IN vulnerabilitiesOfAdvisories(entries[i].advisories)]

\* map.get(key) || []
getOrEmpty_Never(map, key) == <<>>

getOrEmpty(map, key) == IF key \in DOMAIN map THEN map[key] ELSE <<>>

\* visited.has(key): the cycle guard of buildDependencyItem
cycleGuard_Never(visited, key) == FALSE

cycleGuard_AnyVisited(visited, key) == visited /= {}

cycleGuard(visited, key) == key \in visited

\* the childNode built from a DependencyReference
childNodeOf_Expanded(depRef) ==
    DependencyNode(depRef.id, Some(<<DependencyReference(idQ)>>), Some(<<issueWarning>>))

childNodeOf(depRef) == DependencyNode(depRef.id, Some(<<>>), Some(<<>>))

TreeItem(id, label, license, risk, children, vulns, issues) ==
    [id |-> id, label |-> label, license |-> license, risk |-> risk,
     children |-> children, vulnerabilities |-> vulns, issues |-> issues]

\* the items that are not null, in order
RECURSIVE keepItems(_)
keepItems(results) ==
    IF results = <<>> THEN <<>>
    ELSE (IF IsSome(Head(results)) THEN <<Get(Head(results))>> ELSE <<>>)
             \o keepItems(Tail(results))

\* ORTParser.buildDependencyItem: None is the null returned for a cycle
RECURSIVE buildDependencyItem(_, _, _, _, _)
buildDependencyItem(cfg, node, packages, vulnerabilities, visited) ==
    LET key == getIdentifierKey(node.id) IN
    IF cycleGuard(visited, key) THEN None
    ELSE LET branchVisited == visited \cup {key}
             resolved == key \in DOMAIN packages
             id == IF resolved THEN packages[key].id ELSE node.id
             license == IF resolved THEN extractLicense(packages[key]) ELSE None
             risk == classifyLicenseRisk(cfg, license)
             refs == OrEmpty(node.dependencies)
             children ==
                 keepItems([i \in 1..Len(refs) |->
                     buildDependencyItem(cfg, childNodeOf(refs[i]), packages,
                                         vulnerabilities, branchVisited)])
         IN Some(TreeItem(id, id.name \o sAt \o id.version, license, risk, children,
                          getOrEmpty(vulnerabilities, key), OrEmpty(node.issues)))

\* the visited set buildProjectItem hands to each top-level dependency
initialVisited(project) == {}

\* the scope grouping item of buildProjectItem
buildScopeItem_Unlabelled(cfg, project, scope, packages, vulnerabilities) ==
    LET scopeChildren ==
            keepItems([i \in 1..Len(scope.dependencies) |->
                buildDependencyItem(cfg, scope.dependencies[i], packages,
                                    vulnerabilities, initialVisited(project))])
    IN TreeItem(Identifier(sEmpty, sEmpty, scope.name, sEmpty), scope.name,
                None, "unknown", scopeChildren, <<>>, <<>>)

buildScopeItem(cfg, project, scope, packages, vulnerabilities) ==
    LET scopeChildren ==
            keepItems([i \in 1..Len(scope.dependencies) |->
                buildDependencyItem(cfg, scope.dependencies[i], packages,
                                    vulnerabilities, initialVisited(project))])
    IN TreeItem(Identifier(sEmpty, sEmpty, scope.name, sEmpty),
                scope.name \o <<" ","(">> \o NatToString(Len(scopeChildren)) \o <<")">>,
                None, "unknown", scopeChildren, <<>>, <<>>)

\* ORTParser.buildProjectItem
buildProjectItem(cfg, project, packages, vulnerabilities) ==
    LET license == extractLicense(project)
        risk == classifyLicenseRisk(cfg, license)
        pkgKey == getIdentifierKey(project.id)
        scopes == OrEmpty(project.scope_dependencies)
        children == [i \in 1..Len(scopes) |->
                        buildScopeItem(cfg, project, scopes[i], packages, vulnerabilities)]
    IN TreeItem(project.id, project.id.name \o sAt \o project.id.version \o sProjectSuffix,
                license, risk, children, getOrEmpty(vulnerabilities, pkgKey), <<>>)

\* ortResult.analyzer?.result?.projects
projectsOf(result) ==
    IF IsSome(analyzerResult(result)) THEN Get(analyzerResult(result)).projects ELSE None

\* ORTParser.buildDependencyTree
buildDependencyTree_NoGuard(cfg, result) ==
    IF ~IsSome(projectsOf(result)) THEN <<"TypeError">>
    ELSE LET packages == buildPackageMap(OrEmpty(Get(analyzerResult(result)).packages))
             vulnerabilities == buildVulnerabilityMap(result.advisor)
             projects == Get(projectsOf(result))
         IN [i \in 1..Len(projects) |->
                buildProjectItem(cfg, projects[i], packages, vulnerabilities)]

buildDependencyTree_Reversed(cfg, result) ==
    IF ~IsSome(projectsOf(result)) THEN <<>>
    ELSE LET packages == buildPackageMap(OrEmpty(Get(analyzerResult(result)).packages))
             vulnerabilities == buildVulnerabilityMap(result.advisor)
             projects == Get(projectsOf(result))
         IN [i \in 1..Len(projects) |->
                buildProjectItem(cfg, projects[Len(projects) + 1 - i], packages,
                                 vulnerabilities)]

buildDependencyTree(cfg, result) ==
    IF ~IsSome(projectsOf(result)) THEN <<>>
    ELSE LET packages == buildPackageMap(OrEmpty(Get(analyzerResult(result)).packages))
             vulnerabilities == buildVulnerabilityMap(result.advisor)
             projects == Get(projectsOf(result))
         IN [i \in 1..Len(projects) |->
                buildProjectItem(cfg, projects[i], packages, vulnerabilities)]

-----------------------------------------------------------------------------
(* SpecTree: buildDependencyTree on a result, one buildDependencyItem call   *)
(* per step; frames holds the calls still to be made in depth-first order    *)

MaxRefs == 1         \* references under one dependency node
MaxNodes == 2        \* dependency nodes of a scope

Frame(node, visited) == [node |-> node, visited |-> visited]

RECURSIVE concat(_)
concat(seqs) == IF seqs = <<>> THEN <<>> ELSE Head(seqs) \o concat(Tail(seqs))

\* the buildDependencyItem calls made by the loops of buildProjectItem
projectCalls(project) ==
    LET scopes == OrEmpty(project.scope_dependencies) IN
    concat([s \in 1..Len(scopes) |->
        [d \in 1..Len(scopes[s].dependencies) |->
            Frame(scopes[s].dependencies[d], initialVisited(project))]])

\* the calls made by the loop of buildDependencyTree
topLevelCalls(result) ==
    LET projects == Get(projectsOf(result)) IN
    concat([i \in 1..Len(projects) |-> projectCalls(projects[i])])

\* the recursive calls one buildDependencyItem call makes
childCalls(frame) ==
    LET key == getIdentifierKey(frame.node.id)
        refs == OrEmpty(frame.node.dependencies)
    IN IF cycleGuard(frame.visited, key) THEN <<>>
       ELSE [i \in 1..Len(refs) |->
                Frame(childNodeOf(refs[i]), frame.visited \cup {key})]

\* the Identifiers of the graphs: a package and the project itself
TreeIds == {idA, idP}

TreeRefs == {DependencyReference(id) : id \in TreeIds}

TreeNodes ==
    {DependencyNode(id, Some(refs), Some(<<>>)) :
        id \in TreeIds, refs \in SeqsUpTo(TreeRefs, MaxRefs)}

TreeScopes ==
    {[name |-> <<"d","e","p","s">>, dependencies |-> nodes] :
        nodes \in SeqsUpTo(TreeNodes, MaxNodes)}

TreeProjects ==
    {Project(idP, Some(<<sMIT>>), Spdx(sMIT), scopes) :
        scopes \in {None} \cup {Some(<<scope>>) : scope \in TreeScopes}}

advisorForA ==
    Some([advisories |-> Some(<<[pkgId |-> getIdentifierKey(idA),
                                 advisories |-> <<[vulnerabilities |-> Some(<<"CVE-1">>)]>>]>>)])

TreeResults ==
    {ResultOf(Some(AnalyzerRun(Some(<<project>>), Some(<<pkgMIT>>), Some(<<>>))), advisorForA) :
        project \in TreeProjects}
    \cup InitialResults

\* projects with several scopes, packages that resolve and packages that do
\* not, and an advisor section with several advisories per package
MaxScopes == 2         \* scopes of a project
MaxTreeProjects == 2   \* projects of a result handed to the tree builder

refA == DependencyReference(idA)
refB == DependencyReference(idB)
refC == DependencyReference(idC)

nodeBtoA == DependencyNode(idB, Some(<<refA>>), Some(<<>>))
nodeCtoA == DependencyNode(idC, Some(<<refA>>), Some(<<issueWarning>>))
\* a node whose JSON has neither dependencies nor issues
nodeBare == DependencyNode(idA, None, None)
nodeCtoACB == DependencyNode(idC, Some(<<refA, refC, refB>>), Some(<<>>))

scopeCompile ==
    [name |-> <<"c","o","m","p","i","l","e">>, dependencies |-> <<nodeBtoA, nodeCtoA>>]
scopeTest ==
    [name |-> <<"t","e","s","t">>, dependencies |-> <<nodeBare, nodeCtoACB>>]

ForestScopes == {scopeCompile, scopeTest}

\* a and b resolve, b is listed twice, c is not listed
forestPackages == <<pkgMIT, pkgProprietary, pkgGPL>>

ForestProjects ==
    {Project(idP, Some(<<sMIT>>), Spdx(sMIT), Some(scopes)) :
        scopes \in SeqsUpTo(ForestScopes, MaxScopes)}
    \cup {Project(idQ, Some(<<sMIT, sGPL3>>), NoSpdx, scopes) :
        scopes \in {None, Some(<<scopeTest>>)}}

Advisory(vulnerabilities) == [vulnerabilities |-> vulnerabilities]

advisorRich ==
    Some([advisories |-> Some(<<
        [pkgId |-> getIdentifierKey(idA),
         advisories |-> <<Advisory(Some(<<"CVE-1">>)), Advisory(None),
                          Advisory(Some(<<"CVE-2", "CVE-3">>))>>],
        [pkgId |-> getIdentifierKey(idP),
         advisories |-> <<Advisory(Some(<<"CVE-4">>))>>],
        [pkgId |-> getIdentifierKey(idC),
         advisories |-> <<Advisory(None), Advisory(Some(<<>>))>>]>>)])

\* an advisor section without advisories
advisorEmpty == Some([advisories |-> None])

ForestResults ==
    {ResultOf(Some(AnalyzerRun(Some(projects), Some(forestPackages), Some(<<>>))), advisorRich) :
        projects \in SeqsUpTo(ForestProjects, MaxTreeProjects)}
    \cup {ResultOf(Some(AnalyzerRun(Some(<<project>>), packages, None)), advisor) :
        project \in ForestProjects, packages \in {None, Some(forestPackages)},
        advisor \in {None, advisorEmpty}}

\* two Identifiers with a ':' inside a field: a dependency node and a package
idColonNamespace == Identifier(sN, sColon, <<"a">>, <<"1">>)
idColonType == Identifier(sN \o sColon, sEmpty, <<"a">>, <<"1">>)

collisionResult ==
    ResultOf(Some(AnalyzerRun(
        Some(<<Project(idP, Some(<<sMIT>>), Spdx(sMIT),
                 Some(<<[name |-> <<"d","e","p","s">>,
                         dependencies |-> <<DependencyNode(idColonNamespace, Some(<<>>), Some(<<>>))>>]>>))>>),
        Some(<<Package(idColonType, Some(<<sGPL3only>>), Spdx(sGPL3only))>>),
        Some(<<>>))), None)

TreeInputs == TreeResults \cup ForestResults \cup {collisionResult, NoResult}

InitTree ==
    /\ config = DefaultConfig
    /\ ClassifierIdle
    /\ ortResult \in TreeInputs
    /\ stats = ZeroStats
    /\ compliance = NoCompliance
    /\ BuilderIdle
    /\ IoIdle
    /\ ExtIdle

\* where the control of a build stands
AtGuardNoProjects == phase = "idle" /\ ~IsSome(projectsOf(ortResult))
AtProjectLoop == phase = "idle" /\ IsSome(projectsOf(ortResult))
AtCall == phase = "building" /\ frames /= <<>>
AtReturn == phase = "building" /\ frames = <<>>

\* buildDependencyTree returns the empty list when projects is absent
BuildDependencyTreeNoProjects ==
    /\ AtGuardNoProjects
    /\ treeData' = buildDependencyTree(config, ortResult)
    /\ phase' = "done"
    /\ UNCHANGED <<config, clsCalled, clsLicense, clsRisk, ortResult, stats, compliance,
                   frames, steps>>
    /\ UNCHANGED <<ioVars, extVars>>

\* buildDependencyTree enters its loop over the projects
BuildDependencyTreeStart ==
    /\ AtProjectLoop
    /\ frames' = topLevelCalls(ortResult)
    /\ steps' = 0
    /\ phase' = "building"
    /\ UNCHANGED <<config, clsCalled, clsLicense, clsRisk, ortResult, stats, compliance,
                   treeData>>
    /\ UNCHANGED <<ioVars, extVars>>

\* one call of buildDependencyItem: the guard, then its recursive calls first
BuildDependencyItemCall ==
    /\ AtCall
    /\ frames' = childCalls(Head(frames)) \o Tail(frames)
    /\ steps' = steps + 1
    /\ UNCHANGED <<config, clsCalled, clsLicense, clsRisk, ortResult, stats, compliance,
                   treeData, phase>>
    /\ UNCHANGED <<ioVars, extVars>>

\* every call has returned: buildDependencyTree returns the items
BuildDependencyTreeReturn ==
    /\ AtReturn
    /\ treeData' = buildDependencyTree(config, ortResult)
    /\ phase' = "done"
    /\ UNCHANGED <<config, clsCalled, clsLicense, clsRisk, ortResult, stats, compliance,
                   frames, steps>>
    /\ UNCHANGED <<ioVars, extVars>>

NextTree ==
    \/ BuildDependencyTreeNoProjects
    \/ BuildDependencyTreeStart
    \/ BuildDependencyItemCall
    \/ BuildDependencyTreeReturn

SpecTree == InitTree /\ [][NextTree]_vars

-----------------------------------------------------------------------------
(* Claims about buildDependencyTree *)

\* the dependency nodes of the input, over all projects and scopes
InputNodes ==
    IF IsSome(projectsOf(ortResult))
    THEN LET projects == Get(projectsOf(ortResult))
             scopes(p) == IF IsSome(projects[p].scope_dependencies)
                          THEN Get(projects[p].scope_dependencies) ELSE <<>>
         IN UNION {UNION {{<<p, s, d>> : d \in 1..Len(scopes(p)[s].dependencies)} :
                          s \in 1..Len(scopes(p))} :
                   p \in 1..Len(projects)}
    ELSE {}

NodeAt(pos) ==
    Get(Get(projectsOf(ortResult))[pos[1]].scope_dependencies)[pos[2]].dependencies[pos[3]]

RefsOf(node) == IF IsSome(node.dependencies) THEN Get(node.dependencies) ELSE <<>>

RECURSIVE SumOver(_, _)
SumOver(f, S) ==
    IF S = {} THEN 0
    ELSE LET x == CHOOSE y \in S : TRUE IN f[x] + SumOver(f, S \ {x})

\* nodes plus references of the input: no build makes more calls than that
CallBound ==
    Cardinality(InputNodes)
        + SumOver([pos \in InputNodes |-> Len(RefsOf(NodeAt(pos)))], InputNodes)

\* the item built for the node at a position of the input
ItemAt(pos) == treeData[pos[1]].children[pos[2]].children[pos[3]]

KeysOf(items) == [i \in 1..Len(items) |-> getIdentifierKey(items[i].id)]

\* in the finished tree every top-level node has its item, whose children are
\* the references that do not repeat the node's own key, in order, as leaves
CycleEdgesOmitted ==
    /\ Len(treeData) = Len(OrEmpty(projectsOf(ortResult)))
    /\ \A pos \in InputNodes :
          LET node == NodeAt(pos)
              Other(ref) == getIdentifierKey(ref.id) /= getIdentifierKey(node.id)
          IN /\ getIdentifierKey(ItemAt(pos).id) = getIdentifierKey(node.id)
             /\ KeysOf(ItemAt(pos).children) = KeysOf(SelectSeq(RefsOf(node), Other))
             /\ \A c \in 1..Len(ItemAt(pos).children) :
                    ItemAt(pos).children[c].children = <<>>

RECURSIVE NoRepeatBelow(_, _)
NoRepeatBelow(item, seen) ==
    /\ item.id \notin seen
    /\ \A c \in 1..Len(item.children) :
          NoRepeatBelow(item.children[c], seen \cup {item.id})

\* C10: on every path from a project item down to a leaf no Identifier occurs
\* twice among the project and dependency items.
C10_NoIdentifierTwiceOnPath ==
    phase = "done" =>
        \A p \in 1..Len(treeData) :
            \A s \in 1..Len(treeData[p].children) :
                \A d \in 1..Len(treeData[p].children[s].children) :
                    NoRepeatBelow(treeData[p].children[s].children[d], {treeData[p].id})

-----------------------------------------------------------------------------
(* Claims about the items of the tree *)

ScopesOfProject(p) ==
    IF IsSome(ProjectsNow[p].scope_dependencies)
    THEN Get(ProjectsNow[p].scope_dependencies) ELSE <<>>

\* the finished tree has the shape of the input: a project item per project,
\* a scope item per scope, a dependency item per node of the scope
TreeShaped ==
    /\ Len(treeData) = Len(ProjectsNow)
    /\ \A p \in 1..Len(ProjectsNow) :
          /\ Len(treeData[p].children) = Len(ScopesOfProject(p))
          /\ \A s \in 1..Len(ScopesOfProject(p)) :
                Len(treeData[p].children[s].children)
                    = Len(ScopesOfProject(p)[s].dependencies)

\* the references of a node that do not name the node itself, in order
RefsKept(node) ==
    LET Other(ref) == getIdentifierKey(ref.id) /= getIdentifierKey(node.id)
    IN SelectSeq(RefsOf(node), Other)

\* C11: every reference of a dependency node that does not repeat the node
\* itself has its item under that node's item, whatever the sibling nodes, the
\* other scopes and the other projects reference, and whatever was pruned
\* there; every node of every scope has its own item.
C11_DiamondExpanded ==
    phase = "done" =>
        /\ TreeShaped
        /\ \A pos \in InputNodes :
              /\ getIdentifierKey(ItemAt(pos).id) = getIdentifierKey(NodeAt(pos).id)
              /\ \A r \in 1..Len(RefsOf(NodeAt(pos))) :
                    LET ref == RefsOf(NodeAt(pos))[r] IN
                    getIdentifierKey(ref.id) /= getIdentifierKey(NodeAt(pos).id) =>
                        \E c \in 1..Len(ItemAt(pos).children) :
                            getIdentifierKey(ItemAt(pos).children[c].id)
                                = getIdentifierKey(ref.id)

\* b and c are siblings that both reference a, and a second scope lists a
\* itself: a has an item under b, under c and in the second scope
C11_Witness ==
    /\ phase = "done"
    /\ Len(ProjectsNow) >= 1
    /\ ScopesOfProject(1) = <<scopeCompile, scopeTest>>
    /\ KeysOf(treeData[1].children[1].children[1].children) = <<getIdentifierKey(idA)>>
    /\ KeysOf(treeData[1].children[1].children[2].children) = <<getIdentifierKey(idA)>>
    /\ getIdentifierKey(treeData[1].children[2].children[1].id) = getIdentifierKey(idA)

\* C12: without analyzer, without analyzer.result, without a projects list and
\* with an empty projects list the build makes no buildDependencyItem call,
\* stands at a step it can take until it has returned, and returns the empty
\* sequence.
C12_EmptyWithoutProjects ==
    (~IsSome(projectsOf(ortResult)) \/ ProjectsNow = <<>>) =>
        /\ steps = 0 /\ frames = <<>>
        /\ phase = "done" \/ AtGuardNoProjects \/ AtProjectLoop \/ AtReturn
        /\ phase = "done" => treeData = <<>>

\* the build returned for a result without analyzer
C12_Witness ==
    /\ phase = "done"
    /\ ~IsSome(ortResult.analyzer)
    /\ treeData = <<>>

\* the text the claims expect for a license: the SPDX expression if there is a
\* non-empty one, else the declared strings separated by " OR ", else none
ExpectedLicense(entry) ==
    LET spdx == IF entry.declared_licenses_processed = None THEN None
                ELSE entry.declared_licenses_processed[1].spdx_expression
        declared == IF entry.declared_licenses = None THEN <<>>
                    ELSE entry.declared_licenses[1]
    IN IF spdx /= None /\ spdx[1] /= <<>> THEN spdx
       ELSE IF declared /= <<>>
       THEN Some(concat([i \in 1..Len(declared) |->
                    (IF i > 1 THEN <<" ","O","R"," ">> ELSE <<>>) \o declared[i]]))
       ELSE None

\* the packages of the list whose key is the key of id
PackagesKeyed(id) ==
    {i \in 1..Len(PackagesNow) :
        getIdentifierKey(PackagesNow[i].id) = getIdentifierKey(id)}

LastOf(S) == CHOOSE i \in S : \A j \in S : j <= i

\* the item built for a node or a reference with Identifier id
DependencyItemDescribes(item, id) ==
    IF PackagesKeyed(id) = {}
    THEN /\ item.id = id
         /\ item.label = id.name \o <<"@">> \o id.version
         /\ item.license = None
         /\ item.risk = "unknown"
    ELSE LET pkg == PackagesNow[LastOf(PackagesKeyed(id))] IN
         /\ item.id = pkg.id
         /\ item.label = pkg.id.name \o <<"@">> \o pkg.id.version
         /\ item.license = ExpectedLicense(pkg)
         /\ item.risk = classifyLicenseRisk(config, ExpectedLicense(pkg))

C14_OrderPreserved ==
    phase = "done" =>
        /\ TreeShaped
        /\ \A p \in 1..Len(ProjectsNow) :
              /\ treeData[p].id = ProjectsNow[p].id
              /\ treeData[p].license = ExpectedLicense(ProjectsNow[p])
              /\ \A s \in 1..Len(ScopesOfProject(p)) :
                    /\ treeData[p].children[s].id.name = ScopesOfProject(p)[s].name
                    /\ KeysOf(treeData[p].children[s].children)
                           = KeysOf(ScopesOfProject(p)[s].dependencies)
        /\ \A pos \in InputNodes :
              KeysOf(ItemAt(pos).children) = KeysOf(RefsKept(NodeAt(pos)))

\* two different projects, the second with its scopes in the order test,
\* compile; the reference of c to itself was pruned between a and b
C14_Witness ==
    /\ phase = "done"
    /\ Len(ProjectsNow) = 2
    /\ ProjectsNow[1].id = idQ
    /\ ProjectsNow[2].id = idP
    /\ ScopesOfProject(2) = <<scopeTest, scopeCompile>>
    /\ treeData[1].id = idQ
    /\ treeData[2].children[1].id.name = scopeTest.name
    /\ KeysOf(treeData[2].children[1].children[2].children)
           = <<getIdentifierKey(idA), getIdentifierKey(idB)>>

\* C15: the item of a scope is labelled '<scope name> (<n>)' with n the number
\* of items under it, which is the number of nodes of the scope; its risk is
\* unknown, it has no license, no vulnerabilities and no issues.
C15_ScopeItem ==
    phase = "done" =>
        /\ TreeShaped
        /\ \A p \in 1..Len(ProjectsNow) :
              \A s \in 1..Len(ScopesOfProject(p)) :
                  LET item == treeData[p].children[s]
                      scope == ScopesOfProject(p)[s]
                  IN /\ item.label = scope.name \o <<" ", "(">>
                                         \o NatToString(Len(item.children)) \o <<")">>
                     /\ Len(item.children) = Len(scope.dependencies)
                     /\ item.risk = "unknown"
                     /\ item.license = None
                     /\ item.vulnerabilities = <<>>
                     /\ item.issues = <<>>

\* a scope of two nodes, one of which lost a reference to pruning
C15_Witness ==
    /\ phase = "done"
    /\ Len(ProjectsNow) >= 1
    /\ Len(ScopesOfProject(1)) >= 1
    /\ ScopesOfProject(1)[1] = scopeTest
    /\ treeData[1].children[1].label = <<"t","e","s","t"," ","(","2",")">>

\* the vulnerabilities the advisor section records under a key
ExpectedVulnerabilities(key) ==
    IF ortResult.advisor = None THEN <<>>
    ELSE IF ortResult.advisor[1].advisories = None THEN <<>>
    ELSE LET entries == ortResult.advisor[1].advisories[1]
             mine == {i \in 1..Len(entries) : entries[i].pkgId = key}
         IN IF mine = {} THEN <<>>
            ELSE LET advisories == entries[CHOOSE i \in mine : TRUE].advisories IN
                 concat([j \in 1..Len(advisories) |->
                     IF advisories[j].vulnerabilities = None THEN <<>>
                     ELSE advisories[j].vulnerabilities[1]])

\* C19: a project item carries the vulnerabilities recorded under the key of
\* the project, a dependency item those recorded under the key of its node or
\* reference, over all advisories of the key in order; a scope item carries
\* none.
C19_VulnerabilitiesByKey ==
    phase = "done" =>
        /\ TreeShaped
        /\ \A p \in 1..Len(ProjectsNow) :
              /\ treeData[p].vulnerabilities
                     = ExpectedVulnerabilities(getIdentifierKey(ProjectsNow[p].id))
              /\ \A s \in 1..Len(treeData[p].children) :
                     treeData[p].children[s].vulnerabilities = <<>>
        /\ \A pos \in InputNodes :
              /\ ItemAt(pos).vulnerabilities
                     = ExpectedVulnerabilities(getIdentifierKey(NodeAt(pos).id))
              /\ Len(ItemAt(pos).children) = Len(RefsKept(NodeAt(pos)))
              /\ \A c \in 1..Len(ItemAt(pos).children) :
                     ItemAt(pos).children[c].vulnerabilities
                         = ExpectedVulnerabilities(
                               getIdentifierKey(RefsKept(NodeAt(pos))[c].id))

\* a has three advisories, two of them with vulnerabilities; the project has
\* one; c has advisories without vulnerabilities
C19_Witness ==
    /\ phase = "done"
    /\ ortResult.advisor = advisorRich
    /\ Len(ProjectsNow) >= 1
    /\ ProjectsNow[1].id = idP
    /\ treeData[1].vulnerabilities = <<"CVE-4">>
    /\ \E pos \in InputNodes :
          /\ NodeAt(pos) = nodeBtoA
          /\ ItemAt(pos).vulnerabilities = <<>>
          /\ ItemAt(pos).children[1].vulnerabilities = <<"CVE-1", "CVE-2", "CVE-3">>
    /\ \E pos \in InputNodes :
          /\ NodeAt(pos) = nodeCtoA
          /\ ItemAt(pos).vulnerabilities = <<>>

\* the Identifiers of the result: of its projects, packages, nodes, references
IdentifiersNow ==
    {ProjectsNow[p].id : p \in 1..Len(ProjectsNow)}
        \cup {PackagesNow[i].id : i \in 1..Len(PackagesNow)}
        \cup {NodeAt(pos).id : pos \in InputNodes}
        \cup UNION {{RefsOf(NodeAt(pos))[r].id : r \in 1..Len(RefsOf(NodeAt(pos)))} :
                    pos \in InputNodes}

\* C18: two Identifiers of the result a tree was built from have the same key
\* exactly when their four fields are equal, so that the item of a node that
\* resolves carries the node's own Identifier.
C18_KeyIdentifiesIdentifier ==
    phase = "done" =>
        /\ \A x, y \in IdentifiersNow :
              getIdentifierKey(x) = getIdentifierKey(y) <=> x = y
        /\ TreeShaped
        /\ \A pos \in InputNodes : ItemAt(pos).id = NodeAt(pos).id

-----------------------------------------------------------------------------
(* SpecExtract: one result whose project or package has any shape of license *)
(* data; the tree is built from it and the statistics are calculated from it *)

MaxDeclared == 2     \* strings of a declared_licenses list

DeclaredShapes ==
    {None} \cup {Some(list) : list \in SeqsUpTo({sMIT, sGPL3, sEmpty}, MaxDeclared)}

ProcessedShapes == {None, NoSpdx, Spdx(sEmpty), Spdx(sLGPL3), Spdx(sCustom)}

scopeOfA == [name |-> <<"d","e","p","s">>, dependencies |-> <<nodeBare>>]

ExtractResults ==
    {ResultOf(Some(AnalyzerRun(
         Some(<<Project(idP, declared, processed, Some(<<scopeOfA>>))>>),
         Some(<<pkgMIT>>), Some(<<>>))), None) :
        declared \in DeclaredShapes, processed \in ProcessedShapes}
    \cup {ResultOf(Some(AnalyzerRun(
         Some(<<Project(idP, Some(<<sMIT>>), Spdx(sMIT), Some(<<scopeOfA>>))>>),
         Some(<<Package(idA, declared, processed)>>), Some(<<>>))), None) :
        declared \in DeclaredShapes, processed \in ProcessedShapes}
    \cup InitialResults

InitExtract ==
    /\ config = DefaultConfig
    /\ ClassifierIdle
    /\ ortResult \in ExtractResults
    /\ stats = ZeroStats
    /\ compliance = NoCompliance
    /\ BuilderIdle
    /\ IoIdle
    /\ ExtIdle

\* calculateLicenseStats is called on the loaded result
CalculateLicenseStats ==
    /\ stats' = calculateLicenseStats(config, ortResult)
    /\ UNCHANGED <<config, clsCalled, clsLicense, clsRisk, ortResult, compliance,
                   treeData, phase, frames, steps>>
    /\ UNCHANGED <<ioVars, extVars>>

NextExtract ==
    \/ NextTree
    \/ CalculateLicenseStats

SpecExtract == InitExtract /\ [][NextExtract]_vars

\* the entries whose expected license is the non-empty text l
EntriesExpecting(l) ==
    {i \in 1..Len(AllEntries) : ExpectedLicense(AllEntries[i]) = Some(l)}

\* C16: the license of a project item and of a resolved dependency item is
\* the SPDX expression of the entry when it has a non-empty one, else its
\* declared strings joined with " OR " when it has any, else absent; the
\* statistics count every entry under that same text and in the bucket that
\* text classifies to.
C16_ExtractLicense ==
    /\ phase = "done" =>
          /\ TreeShaped
          /\ \A p \in 1..Len(ProjectsNow) :
                treeData[p].license = ExpectedLicense(ProjectsNow[p])
          /\ \A pos \in InputNodes :
                PackagesKeyed(NodeAt(pos).id) /= {} =>
                    ItemAt(pos).license
                        = ExpectedLicense(PackagesNow[LastOf(PackagesKeyed(NodeAt(pos).id))])
    /\ stats.total > 0 =>
          /\ \A l \in DOMAIN stats.byLicense :
                /\ l /= <<>>
                /\ stats.byLicense[l] = Number(Cardinality(EntriesExpecting(l)))
          /\ \A i \in 1..Len(AllEntries) :
                LET license == ExpectedLicense(AllEntries[i]) IN
                (license /= None /\ license[1] /= <<>>) =>
                    license[1] \in DOMAIN stats.byLicense
          /\ stats.permissive =
                Cardinality({i \in 1..Len(AllEntries) :
                    classifyLicenseRisk(config, ExpectedLicense(AllEntries[i]))
                        = "permissive"})
          /\ stats.strongCopyleft =
                Cardinality({i \in 1..Len(AllEntries) :
                    classifyLicenseRisk(config, ExpectedLicense(AllEntries[i]))
                        = "strong-copyleft"})

\* a package with an empty SPDX expression and two declared strings: the item
\* of its node and the statistics both use the joined text
C16_Witness ==
    /\ phase = "done"
    /\ stats.total = 2
    /\ PackagesNow = <<Package(idA, Some(<<sMIT, sGPL3>>), Spdx(sEmpty))>>
    /\ treeData[1].children[1].children[1].license = Some(sMITorGPL3)
    /\ sMITorGPL3 \in DOMAIN stats.byLicense
    /\ stats.permissive = 2

-----------------------------------------------------------------------------
(* Result files, JSON.parse and ORTParser.parseResultFile *)

sFailedToParse == <<"F","a","i","l","e","d"," ","t","o"," ","p","a","r","s","e"," ","O","R","T"," ","r","e","s","u","l","t",":"," ">>
sFailedToLoad == <<"F","a","i","l","e","d"," ","t","o"," ","l","o","a","d"," ","O","R","T"," ","r","e","s","u","l","t","s",":"," ">>
sErrorColon == <<"E","r","r","o","r",":"," ">>
\* the leading text of String(error) for the errors of fs.readFileSync and JSON.parse
sENOENT == <<"E","r","r","o","r",":"," ","E","N","O","E","N","T",":"," ","n","o"," ","s","u","c","h"," ","f","i","l","e"," ","o","r"," ","d","i","r","e","c","t","o","r","y">>
sEACCES == <<"E","r","r","o","r",":"," ","E","A","C","C","E","S",":"," ","p","e","r","m","i","s","s","i","o","n"," ","d","e","n","i","e","d">>
sUnexpectedEnd == <<"S","y","n","t","a","x","E","r","r","o","r",":"," ","U","n","e","x","p","e","c","t","e","d"," ","e","n","d"," ","o","f"," ","J","S","O","N"," ","i","n","p","u","t">>
sUnexpectedToken == <<"S","y","n","t","a","x","E","r","r","o","r",":"," ","U","n","e","x","p","e","c","t","e","d"," ","t","o","k","e","n">>

\* The text of a result file is a sequence of JSON tokens; the value of a
\* top-level member is one token that carries the value it denotes.
LBrace == [t |-> "{", k |-> "", v |-> None]
RBrace == [t |-> "}", k |-> "", v |-> None]
Comma == [t |-> ",", k |-> "", v |-> None]
Colon == [t |-> ":", k |-> "", v |-> None]
Key(k) == [t |-> "key", k |-> k, v |-> None]
Value(v) == [t |-> "value", k |-> "", v |-> Some(v)]

Parsed(value) == [ok |-> TRUE, value |-> value, error |-> <<>>]
SyntaxError(message) == [ok |-> FALSE, value |-> <<>>, error |-> message]

\* obj[key] = value on the object being parsed: a repeated key is overwritten
setMember(obj, key, value) ==
    [k \in (DOMAIN obj) \cup {key} |-> IF k = key THEN value ELSE obj[k]]

\* JSON.parse of an object document, token by token: expect is what the
\* grammar allows next, key the member name read last, obj the object so far
RECURSIVE parseMembers(_, _, _, _, _)
parseMembers(text, i, expect, key, obj) ==
    IF i > Len(text)
    THEN IF expect = "end" THEN Parsed(obj) ELSE SyntaxError(sUnexpectedEnd)
    ELSE LET tok == text[i] IN
         IF expect = "open" /\ tok.t = "{"
         THEN parseMembers(text, i + 1, "keyOrClose", key, obj)
         ELSE IF expect \in {"keyOrClose", "commaOrClose"} /\ tok.t = "}"
         THEN parseMembers(text, i + 1, "end", key, obj)
         ELSE IF expect \in {"keyOrClose", "key"} /\ tok.t = "key"
         THEN parseMembers(text, i + 1, "colon", tok.k, obj)
         ELSE IF expect = "colon" /\ tok.t = ":"
         THEN parseMembers(text, i + 1, "value", key, obj)
         ELSE IF expect = "value" /\ tok.t = "value"
         THEN parseMembers(text, i + 1, "commaOrClose", key, setMember(obj, key, Get(tok.v)))
         ELSE IF expect = "commaOrClose" /\ tok.t = ","
         THEN parseMembers(text, i + 1, "key", key, obj)
         ELSE SyntaxError(sUnexpectedToken)

JSONparse(text) == parseMembers(text, 1, "open", "", <<>>)

\* what a path of the file system holds
FileMissing == [kind |-> "missing", text |-> <<>>]
FileUnreadable == [kind |-> "unreadable", text |-> <<>>]
FileWith(text) == [kind |-> "text", text |-> text]

\* fs.existsSync
existsSync(fs, path) == fs[path].kind /= "missing"

\* fs.readFileSync(filePath, 'utf-8')
readFileSync(fs, path) ==
    IF fs[path].kind = "missing" THEN [ok |-> FALSE, content |-> <<>>, error |-> sENOENT]
    ELSE IF fs[path].kind = "unreadable"
    THEN [ok |-> FALSE, content |-> <<>>, error |-> sEACCES]
    ELSE [ok |-> TRUE, content |-> fs[path].text, error |-> <<>>]

Returned(file, result) ==
    [called |-> TRUE, file |-> Some(file), returned |-> Some(result), thrown |-> None]
Thrown(file, message) ==
    [called |-> TRUE, file |-> Some(file), returned |-> None, thrown |-> Some(message)]

parseResultFile_PartialResult(fs, filePath) ==
    LET content == readFileSync(fs, filePath) IN
    IF ~content.ok THEN Thrown(fs[filePath], sFailedToParse \o content.error)
    ELSE LET longest == CHOOSE n \in 0..Len(content.content) :
                            /\ n = 0 \/ JSONparse(SubSeq(content.content, 1, n) \o <<RBrace>>).ok
                            /\ \A m \in (n + 1)..Len(content.content) :
                                   ~JSONparse(SubSeq(content.content, 1, m) \o <<RBrace>>).ok
             result == JSONparse(content.content)
         IN IF result.ok THEN Returned(fs[filePath], result.value)
            ELSE IF longest > 0
            THEN Returned(fs[filePath],
                          JSONparse(SubSeq(content.content, 1, longest) \o <<RBrace>>).value)
            ELSE Thrown(fs[filePath], sFailedToParse \o result.error)

\* ORTParser.parseResultFile
parseResultFile(fs, filePath) ==
    LET content == readFileSync(fs, filePath) IN
    IF ~content.ok THEN Thrown(fs[filePath], sFailedToParse \o content.error)
    ELSE LET result == JSONparse(content.content) IN
         IF result.ok THEN Returned(fs[filePath], result.value)
         ELSE Thrown(fs[filePath], sFailedToParse \o result.error)

\* the parsed document seen through the ORTResult type: the sections the
\* parser reads, each absent when the document has no such member
asORTResult(document) ==
    [analyzer |-> IF "analyzer" \in DOMAIN document THEN Some(document["analyzer"]) ELSE None,
     advisor |-> IF "advisor" \in DOMAIN document THEN Some(document["advisor"]) ELSE None]

-----------------------------------------------------------------------------
(* The result files ORT may have written *)

Member(k, v) == [k |-> k, v |-> v]

analyzerForest ==
    [result |-> Some(AnalyzerRun(
        Some(<<Project(idP, Some(<<sMIT>>), Spdx(sMIT), Some(<<scopeCompile>>))>>),
        Some(forestPackages), Some(<<>>)))]
\* a project without scope_dependencies
analyzerBare ==
    [result |-> Some(AnalyzerRun(
        Some(<<Project(idQ, Some(<<sMIT, sGPL3>>), NoSpdx, None)>>),
        Some(<<>>), Some(<<>>)))]
analyzerMinimal == [result |-> Some(AnalyzerRun(Some(<<>>), Some(<<>>), Some(<<>>)))]
scannerSection == [results |-> <<>>]

docFull ==
    <<Member("analyzer", analyzerForest), Member("advisor", Get(advisorRich)),
      Member("scanner", scannerSection)>>
docNoOptional == <<Member("analyzer", analyzerBare)>>
docMinimal == <<Member("analyzer", analyzerMinimal)>>
docNoAnalyzer == <<>>

Documents == {docFull, docNoOptional, docMinimal, docNoAnalyzer}

\* the JSON text of a document
Render(members) ==
    <<LBrace>>
        \o concat([i \in 1..Len(members) |->
               (IF i > 1 THEN <<Comma>> ELSE <<>>)
                   \o <<Key(members[i].k), Colon, Value(members[i].v)>>])
        \o <<RBrace>>

\* complete files, files cut short while being written, an empty file and a
\* file with a stray closing brace
FileTexts ==
    {Render(d) : d \in Documents}
        \cup {SubSeq(Render(d), 1, Len(Render(d)) - 1) : d \in Documents}
        \cup {<<>>, SubSeq(Render(docFull), 1, 5), Render(docMinimal) \o <<RBrace>>}

FileStates == {FileMissing, FileUnreadable} \cup {FileWith(text) : text \in FileTexts}

Paths == {"ort-result.json"}

-----------------------------------------------------------------------------
(* SpecProvider: DependencyTreeProvider.loadResults and clear, called in any  *)
(* order while the result file is rewritten, removed or made unreadable      *)

MaxCalls == 3        \* loadResults and clear calls of a behaviour

InitProvider ==
    /\ config = DefaultConfig
    /\ ClassifierIdle
    /\ ParserIdle
    /\ files \in [Paths -> FileStates]
    /\ parseOutcome = NoOutcome
    /\ changeEvents = 0
    /\ lastCall = NoCall
    /\ ExtIdle

LoadResults_Merge(resultFile) ==
    /\ lastCall.n < MaxCalls
    /\ LET exists == existsSync(files, resultFile)
           outcome == parseResultFile(files, resultFile)
           built == exists /\ outcome.thrown = None
       IN /\ treeData' = IF built
                         THEN treeData \o buildDependencyTree(config,
                                              asORTResult(Get(outcome.returned)))
                         ELSE <<>>
          /\ ortResult' = IF built THEN asORTResult(Get(outcome.returned)) ELSE ortResult
          /\ parseOutcome' = IF exists THEN outcome ELSE parseOutcome
          /\ lastCall' = [op |-> "loadResults", n |-> lastCall.n + 1,
                          file |-> Some(files[resultFile]),
                          shown |-> IF exists /\ ~built
                                    THEN Some(sFailedToLoad \o sErrorColon \o Get(outcome.thrown))
                                    ELSE None]
    /\ changeEvents' = changeEvents + 1
    /\ UNCHANGED <<config, clsCalled, clsLicense, clsRisk, stats, compliance,
                   phase, frames, steps, files>>
    /\ UNCHANGED extVars

\* DependencyTreeProvider.loadResults: it has no await, so it runs to its end
LoadResults(resultFile) ==
    /\ lastCall.n < MaxCalls
    /\ LET exists == existsSync(files, resultFile)
           outcome == parseResultFile(files, resultFile)
           built == exists /\ outcome.thrown = None
       IN /\ treeData' = IF built
                         THEN buildDependencyTree(config, asORTResult(Get(outcome.returned)))
                         ELSE <<>>
          /\ ortResult' = IF built THEN asORTResult(Get(outcome.returned)) ELSE ortResult
          /\ parseOutcome' = IF exists THEN outcome ELSE parseOutcome
          /\ lastCall' = [op |-> "loadResults", n |-> lastCall.n + 1,
                          file |-> Some(files[resultFile]),
                          shown |-> IF exists /\ ~built
                                    THEN Some(sFailedToLoad \o sErrorColon \o Get(outcome.thrown))
                                    ELSE None]
    /\ changeEvents' = changeEvents + 1
    /\ UNCHANGED <<config, clsCalled, clsLicense, clsRisk, stats, compliance,
                   phase, frames, steps, files>>
    /\ UNCHANGED extVars

\* DependencyTreeProvider.clear
Clear ==
    /\ lastCall.n < MaxCalls
    /\ treeData' = <<>>
    /\ changeEvents' = changeEvents + 1
    /\ lastCall' = [op |-> "clear", n |-> lastCall.n + 1, file |-> None, shown |-> None]
    /\ UNCHANGED <<config, clsCalled, clsLicense, clsRisk, ortResult, stats, compliance,
                   phase, frames, steps, files, parseOutcome>>
    /\ UNCHANGED extVars

\* ORTParser.parseResultFile called on its own
ParseResultFile(filePath) ==
    /\ parseOutcome' = parseResultFile(files, filePath)
    /\ UNCHANGED <<config, clsCalled, clsLicense, clsRisk, ortResult, stats, compliance,
                   treeData, phase, frames, steps, files, changeEvents, lastCall>>
    /\ UNCHANGED extVars

\* the result file is written anew, removed or made unreadable
WriteFile(path, file) ==
    /\ files[path] /= file
    /\ files' = [files EXCEPT ![path] = file]
    /\ UNCHANGED <<config, clsCalled, clsLicense, clsRisk, ortResult, stats, compliance,
                   treeData, phase, frames, steps, parseOutcome, changeEvents, lastCall>>
    /\ UNCHANGED extVars

NextProvider ==
    \/ \E path \in Paths : LoadResults(path)
    \/ Clear
    \/ \E path \in Paths : ParseResultFile(path)
    \/ \E path \in Paths, file \in FileStates : WriteFile(path, file)

SpecProvider == InitProvider /\ [][NextProvider]_vars

-----------------------------------------------------------------------------
(* Claims about parseResultFile and the tree provider *)

\* the object a document denotes
ObjectOf(members) ==
    [k \in {members[i].k : i \in 1..Len(members)} |->
        members[CHOOSE i \in 1..Len(members) : members[i].k = k].v]

\* the documents whose JSON text the file holds
DocumentsIn(file) ==
    IF file.kind = "text" THEN {d \in Documents : Render(d) = file.text} ELSE {}

StartsWith(s, prefix) ==
    /\ Len(prefix) <= Len(s)
    /\ \A i \in 1..Len(prefix) : s[i] = prefix[i]

\* the words by which the cause of a failure is recognised in a message
CauseWords(file) ==
    IF file.kind = "missing" THEN <<"E","N","O","E","N","T">>
    ELSE IF file.kind = "unreadable" THEN <<"E","A","C","C","E","S">>
    ELSE <<"S","y","n","t","a","x","E","r","r","o","r">>

\* C17: a call of parseResultFile either returns the whole document of the
\* file, with the sections it has and without those it lacks, or throws an
\* Error whose message starts with 'Failed to parse ORT result' and names the
\* cause; it throws for a missing file, an unreadable file and every text
\* that is not a complete document, and never returns part of one.
C17_ParseOrThrow ==
    parseOutcome.called =>
        LET file == parseOutcome.file[1] IN
        IF DocumentsIn(file) /= {}
        THEN /\ parseOutcome.thrown = None
             /\ parseOutcome.returned /= None
             /\ \A d \in DocumentsIn(file) :
                   /\ DOMAIN parseOutcome.returned[1] = {d[i].k : i \in 1..Len(d)}
                   /\ \A i \in 1..Len(d) : parseOutcome.returned[1][d[i].k] = d[i].v
        ELSE /\ parseOutcome.returned = None
             /\ parseOutcome.thrown /= None
             /\ StartsWith(parseOutcome.thrown[1],
                           <<"F","a","i","l","e","d"," ","t","o"," ","p","a","r","s","e"," ",
                             "O","R","T"," ","r","e","s","u","l","t">>)
             /\ Occurs(CauseWords(file), parseOutcome.thrown[1])

\* a file cut short after its complete analyzer member made the call throw
C17_Witness ==
    /\ parseOutcome.called
    /\ parseOutcome.file = Some(FileWith(SubSeq(Render(docFull), 1, 5)))
    /\ parseOutcome.returned = None
    /\ parseOutcome.thrown = Some(sFailedToParse \o sUnexpectedEnd)

\* C20: treeData is the tree of the document the most recent loadResults
\* found in the file, and is empty after clear, after a loadResults that found
\* no file, an unreadable file or a text that is not a complete document, and
\* before any call; every call has fired exactly one change event.
C20_TreeOfMostRecentLoad ==
    /\ changeEvents = lastCall.n
    /\ lastCall.op \in {"none", "clear"} => treeData = <<>>
    /\ lastCall.op = "loadResults" =>
          LET file == lastCall.file[1] IN
          IF DocumentsIn(file) /= {}
          THEN \A d \in DocumentsIn(file) :
                   treeData = buildDependencyTree(config, asORTResult(ObjectOf(d)))
          ELSE treeData = <<>>

\* the full document was loaded, then the file was found cut short: the
\* tree of the first load is gone and both calls fired their event
C20_Witness ==
    /\ lastCall.op = "loadResults"
    /\ lastCall.n = 2
    /\ lastCall.file = Some(FileWith(SubSeq(Render(docFull), 1, 5)))
    /\ lastCall.shown = Some(sFailedToLoad \o sErrorColon \o sFailedToParse \o sUnexpectedEnd)
    /\ ortResult = asORTResult(ObjectOf(docFull))
    /\ treeData = <<>>
    /\ changeEvents = 2

-----------------------------------------------------------------------------
(* The depth of the dependency items *)

\* C28: below a scope item the dependency items are at most two levels deep:
\* the item of a top-level node carries the node's issues and one child per
\* reference kept, and every such child is a leaf, without children and
\* without issues, whatever the referenced package depends on.
C28_TwoLevelsBelowScope ==
    phase = "done" =>
        /\ TreeShaped
        /\ \A pos \in InputNodes :
              LET item == ItemAt(pos) IN
              /\ item.issues = OrEmpty(NodeAt(pos).issues)
              /\ Len(item.children) = Len(RefsKept(NodeAt(pos)))
              /\ \A c \in 1..Len(item.children) :
                    /\ item.children[c].children = <<>>
                    /\ item.children[c].issues = <<>>

\* c refers to a, c and b: b is a top-level node with a dependency of its own
\* and a leaf below c; c's issue stays on the item of c
C28_Witness ==
    /\ phase = "done"
    /\ Len(treeData) = 1
    /\ Len(treeData[1].children) = 2
    /\ ScopesOfProject(1) = <<scopeCompile, scopeTest>>
    /\ Len(treeData[1].children[1].children[1].children) = 1
    /\ treeData[1].children[1].children[2].issues = <<issueWarning>>
    /\ KeysOf(treeData[1].children[2].children[2].children)
           = <<getIdentifierKey(idA), getIdentifierKey(idB)>>
    /\ treeData[1].children[2].children[2].children[2].children = <<>>
    /\ treeData[1].children[1].children[2].children[1].issues = <<>>

-----------------------------------------------------------------------------
(* The .ort directory of the workspace *)

analyzerResultFile == ".ort/analyzer-result.json"
advisorResultFile == ".ort/advisor/advisor-result.json"
\* a result that ORT named differently, found by readdirSync
advisorOtherFile == ".ort/advisor/advisor-result-osv.json"
\* the path '' of statusBarProvider.loadResults('') and of a failed runAdvisor
noPath == ""

OrtPaths == {analyzerResultFile, advisorResultFile, advisorOtherFile}
AdvisorPaths == {advisorResultFile, advisorOtherFile}

\* a file with its size in bytes, its modification time and the ORT process
\* that wrote it (0: none of the processes of the session)
OrtFile(text, size, mtime, writer) ==
    [kind |-> "text", text |-> text, size |-> size, mtime |-> mtime, writer |-> writer]
NoFile == [kind |-> "missing", text |-> <<>>, size |-> 0, mtime |-> 0, writer |-> 0]

EmptyOrtDir == [path \in OrtPaths |-> NoFile]

\* fs.existsSync of a path that may be ''
pathExists(fs, path) == path \in DOMAIN fs /\ existsSync(fs, path)

\* fs.rmSync(dir, { recursive: true, force: true })
rmSync_Nothing(fs, paths) == fs

rmSync(fs, paths) == [path \in DOMAIN fs |-> IF path \in paths THEN NoFile ELSE fs[path]]

\* ORTWrapper.findLatestResult
findLatestResult(fs) ==
    IF pathExists(fs, analyzerResultFile) THEN Some(analyzerResultFile) ELSE None

-----------------------------------------------------------------------------
(* StatusBarProvider *)

Scanning == StatusText(<<"Scanning...">>)
NoResults == StatusText(<<"No results">>)
ErrorLoading == StatusText(<<"Error loading results">>)

\* StatusBarProvider.loadResults: the text it leaves in the status bar
statusBarLoadResults(cfg, fs, resultFile) ==
    IF ~pathExists(fs, resultFile) THEN NoResults
    ELSE LET outcome == parseResultFile(fs, resultFile) IN
         IF outcome.thrown /= None THEN ErrorLoading
         ELSE StatusText(getComplianceStatus(cfg, asORTResult(Get(outcome.returned))).message)

\* DependencyTreeProvider.loadResults: the treeData it leaves
treeLoadResults(cfg, fs, resultFile) ==
    IF ~pathExists(fs, resultFile) THEN <<>>
    ELSE LET outcome == parseResultFile(fs, resultFile) IN
         IF outcome.thrown /= None THEN <<>>
         ELSE buildDependencyTree(cfg, asORTResult(Get(outcome.returned)))

-----------------------------------------------------------------------------
(* DiagnosticsProvider *)

sUnknownCap == <<"U","n","k","n","o","w","n">>
sSlash == <<"/">>

\* the open text documents: per line the names extractImports finds in it
TextDocument(uri, extension, lines) == [uri |-> uri, extension |-> extension, lines |-> lines]

mainTs == TextDocument("src/main.ts", ".ts", <<<< <<"a">> >>, << <<"b">>, <<"c">> >>, << >>, << <<"z">> >> >>)
notesMd == TextDocument("NOTES.md", ".md", << << <<"b">> >> >>)
textDocuments == <<mainTs, notesMd>>

sourceExtensions ==
    {".js", ".jsx", ".ts", ".tsx", ".mjs", ".cjs", ".py", ".java", ".kt", ".go", ".rs",
     ".rb", ".cpp", ".c", ".h", ".hpp", ".cs", ".php"}

\* DiagnosticsProvider.isSourceFile
isSourceFile(document) == document.extension \in sourceExtensions

Diagnostic(line, name, severity, message) ==
    [line |-> line, name |-> name, severity |-> severity, message |-> message,
     source |-> "ORT Insight", code |-> "license-compliance"]

createDiagnostic_EveryRisk(lineNumber, packageName, packageInfo) ==
    Some(Diagnostic(lineNumber, packageName,
                    IF packageInfo.risk = "strong-copyleft" THEN "Error" ELSE "Warning",
                    <<"license detected:", packageInfo.license>>))

\* DiagnosticsProvider.createDiagnostic: None is the null it returns; the name
\* is part of the line it was extracted from, so indexOf finds it
createDiagnostic(lineNumber, packageName, packageInfo) ==
    IF packageInfo.risk = "permissive" \/ packageInfo.risk = "unknown" THEN None
    ELSE IF packageInfo.risk = "strong-copyleft"
    THEN Some(Diagnostic(lineNumber, packageName, "Error",
                         <<"Strong copyleft license detected:", packageInfo.license>>))
    ELSE IF packageInfo.risk = "weak-copyleft"
    THEN Some(Diagnostic(lineNumber, packageName, "Warning",
                         <<"Weak copyleft license detected:", packageInfo.license>>))
    ELSE IF packageInfo.risk = "proprietary"
    THEN Some(Diagnostic(lineNumber, packageName, "Warning",
                         <<"Proprietary license detected:", packageInfo.license>>))
    ELSE None

\* the diagnostics updateDiagnostics collects for a document
diagnosticsOf(map, document) ==
    concat([i \in 1..Len(document.lines) |->
        keepItems([j \in 1..Len(document.lines[i]) |->
            LET importName == document.lines[i][j] IN
            IF importName \in DOMAIN map
            THEN createDiagnostic(i - 1, importName, map[importName])
            ELSE None])])

\* DiagnosticsProvider.updateDiagnostics: the collection it leaves; the
\* setting is read from the live settings at every call
updateDiagnostics(collection, map, current, document) ==
    IF ~current.enableDiagnostics
    THEN [uri \in DOMAIN collection \ {document.uri} |-> collection[uri]]
    ELSE IF ~isSourceFile(document) THEN collection
    ELSE [uri \in DOMAIN collection \cup {document.uri} |->
             IF uri = document.uri THEN diagnosticsOf(map, document) ELSE collection[uri]]

\* for (const document of vscode.workspace.textDocuments) updateDiagnostics(document)
RECURSIVE updateAll(_, _, _, _)
updateAll(collection, map, current, documents) ==
    IF documents = <<>> THEN collection
    ELSE updateAll(updateDiagnostics(collection, map, current, Head(documents)),
                   map, current, Tail(documents))

\* the license text of buildPackageLicenseMap:
\* spdx_expression || declared_licenses?.join(' OR ') || 'Unknown'
licenseTextOf(pkg) ==
    IF /\ IsSome(pkg.declared_licenses_processed)
       /\ Truthy(Get(pkg.declared_licenses_processed).spdx_expression)
    THEN Get(Get(pkg.declared_licenses_processed).spdx_expression)
    ELSE IF /\ IsSome(pkg.declared_licenses)
            /\ join(Get(pkg.declared_licenses), sOR) /= sEmpty
    THEN join(Get(pkg.declared_licenses), sOR)
    ELSE sUnknownCap

\* DiagnosticsProvider.buildPackageLicenseMap: a later package replaces an
\* earlier one of the same name
buildPackageLicenseMap(cfg, result) ==
    LET run == analyzerResult(result)
        packages == IF IsSome(run) THEN OrEmpty(Get(run).packages) ELSE <<>>
        fullName(id) == IF id.namespace /= sEmpty
                        THEN id.namespace \o sSlash \o id.name ELSE id.name
        keysOf(i) == {packages[i].id.name, fullName(packages[i].id)}
        last(k) == CHOOSE i \in 1..Len(packages) :
                       /\ k \in keysOf(i)
                       /\ \A j \in (i + 1)..Len(packages) : k \notin keysOf(j)
    IN [k \in UNION {keysOf(i) : i \in 1..Len(packages)} |->
           LET license == licenseTextOf(packages[last(k)])
           IN [license |-> license, risk |-> classifyLicenseRisk(cfg, Some(license))]]

\* the fields of a DiagnosticsProvider
DiagnosticsState(map, last, collection) ==
    [map |-> map, last |-> last, collection |-> collection]

\* DiagnosticsProvider.loadResults: the fields it leaves
diagnosticsLoadResults(cfg, current, fs, provider, resultFile) ==
    IF ~pathExists(fs, resultFile)
    THEN DiagnosticsState(<<>>, NoLastResult, <<>>)
    ELSE IF /\ provider.last = [file |-> Some(resultFile), mtime |-> fs[resultFile].mtime]
            /\ DOMAIN provider.map /= {}
    THEN provider
    ELSE LET recorded == [file |-> Some(resultFile), mtime |-> fs[resultFile].mtime]
             outcome == parseResultFile(fs, resultFile)
         IN IF outcome.thrown /= None
            THEN DiagnosticsState(provider.map, recorded, provider.collection)
            ELSE LET map == buildPackageLicenseMap(cfg, asORTResult(Get(outcome.returned)))
                 IN DiagnosticsState(map, recorded,
                        updateAll(provider.collection, map, current, textDocuments))

DiagnosticsNow == DiagnosticsState(packageLicenseMap, lastResult, diagnosticCollection)

\* loadResults of extension.ts: the four providers load the file one after the
\* other; no handler of the extension runs in between
LoadResultsIntoUI(fs, resultFile) ==
    LET loaded == diagnosticsLoadResults(config, settings, fs, DiagnosticsNow, resultFile) IN
    /\ treeData' = treeLoadResults(config, fs, resultFile)
    /\ changeEvents' = changeEvents + 1
    /\ statusBarText' = statusBarLoadResults(config, fs, resultFile)
    /\ packageLicenseMap' = loaded.map
    /\ lastResult' = loaded.last
    /\ diagnosticCollection' = loaded.collection

uiVars == <<treeData, changeEvents, statusBarText, packageLicenseMap, lastResult,
            diagnosticCollection>>

\* the variables no command of the extension writes
parserVars == <<config, clsCalled, clsLicense, clsRisk, ortResult, stats, compliance,
                phase, frames, steps, parseOutcome, lastCall>>

-----------------------------------------------------------------------------
(* SpecSettings: an ORTParser that lives while the user edits the settings.  *)
(* vscode.workspace.getConfiguration returns a WorkspaceConfiguration that   *)
(* holds the values of the moment of the call; the parser asks for it once,  *)
(* in its constructor, and reads its lists from that object ever after.      *)

permissiveGPL ==
    [permissiveLicenses |-> <<sGPL3>>,
     weakCopyleftLicenses |-> <<sLGPL3>>,
     strongCopyleftLicenses |-> <<sMIT>>]
emptyLists ==
    [permissiveLicenses |-> <<>>, weakCopyleftLicenses |-> <<>>,
     strongCopyleftLicenses |-> <<>>]

SettingsChoices ==
    [classification : {DefaultConfig, permissiveGPL, emptyLists},
     enableDiagnostics : BOOLEAN]

\* vscode.workspace.getConfiguration('ortInsight'): the classification lists
\* of the object returned, which later edits of the settings do not reach
getConfiguration(current) == current.classification

\* new ORTParser()
InitSettings ==
    /\ settings \in SettingsChoices
    /\ config = getConfiguration(settings)
    /\ ClassifierIdle
    /\ ParserIdle
    /\ IoIdle
    /\ ExtensionIdle

\* the user edits the settings of the workspace
UpdateSettings(new) ==
    /\ settings /= new
    /\ settings' = new
    /\ UNCHANGED <<config, clsCalled, clsLicense, clsRisk, ortResult, stats, compliance,
                   treeData, phase, frames, steps, ioVars>>
    /\ UNCHANGED <<ortDir, runs, statusBarText, packageLicenseMap, lastResult,
                   diagnosticCollection, lastCommand>>

NextSettings ==
    \/ \E new \in SettingsChoices : UpdateSettings(new)
    \/ \E l \in LicenseInputs : ClassifyCall(l)

SpecSettings == InitSettings /\ [][NextSettings]_vars

\* C25: a change of the classification lists takes effect on the next
\* classifyLicenseRisk call of an existing parser: every call returns the
\* category that the lists of the settings in force at the call give.
C25_NextCallUsesNewLists ==
    [][(settings' = settings /\ clsCalled')
          => clsRisk' = classifyLicenseRisk(settings.classification, clsLicense')]_vars

-----------------------------------------------------------------------------
(* SpecDiag: the providers of an activated extension while the user refreshes, *)
(* clears the cache, edits documents and settings, and the result file is      *)
(* rewritten                                                                   *)

MaxCommands == 4     \* commands and document events of a behaviour
MaxMtime == 2        \* modification times a rewritten result file may get

\* the n-th command or event: cleared is TRUE from a completed clear-cache
\* until the next load of a result file
Command(op, answer, outcome, document, cleared) ==
    [op |-> op, n |-> lastCommand.n + 1, answer |-> answer, outcome |-> outcome,
     document |-> document, cleared |-> cleared]

analyzerLicenses ==
    [result |-> Some(AnalyzerRun(Some(<<>>), Some(<<pkgMIT, pkgGPL, pkgLGPL>>), Some(<<>>)))]
analyzerProprietary ==
    [result |-> Some(AnalyzerRun(Some(<<>>), Some(<<pkgProprietary, pkgUnlicensed>>),
                                 Some(<<>>)))]
docLicenses == <<Member("analyzer", analyzerLicenses)>>
docProprietary == <<Member("analyzer", analyzerProprietary)>>

\* what a result file may hold: complete results, a result without packages
\* and a result cut short
ResultContents ==
    {[text |-> Render(docLicenses), size |-> 2048],
     [text |-> Render(docProprietary), size |-> 1024],
     [text |-> Render(docMinimal), size |-> 70],
     [text |-> SubSeq(Render(docLicenses), 1, Len(Render(docLicenses)) - 1), size |-> 2047]}

ProvidersConstructed ==
    /\ runs = <<>>
    /\ statusBarText = NotAnalyzed
    /\ packageLicenseMap = <<>>
    /\ lastResult = NoLastResult
    /\ diagnosticCollection = <<>>
    /\ lastCommand = NoCommand

\* the providers as constructed by activate, over a workspace with or
\* without a result of an earlier session
InitDiag ==
    /\ config = getConfiguration(DefaultSettings)
    /\ ClassifierIdle
    /\ ParserIdle
    /\ parseOutcome = NoOutcome
    /\ changeEvents = 0
    /\ lastCall = NoCall
    /\ settings = DefaultSettings
    /\ \/ ortDir = FALSE /\ files = EmptyOrtDir
       \/ /\ ortDir = TRUE
          /\ \E content \in ResultContents :
                files = [EmptyOrtDir EXCEPT ![analyzerResultFile] =
                            OrtFile(content.text, content.size, 1, 0)]
    /\ ProvidersConstructed

\* loadExistingResults: at the end of activate and on ort-insight.refreshTree
RefreshTree ==
    /\ lastCommand.n < MaxCommands
    /\ LET found == findLatestResult(files) IN
       /\ IF IsSome(found) THEN LoadResultsIntoUI(files, Get(found)) ELSE UNCHANGED uiVars
       /\ lastCommand' = Command("refreshTree", "none",
                                 IF IsSome(found) THEN "loaded" ELSE "no results", "none",
                                 lastCommand.cleared /\ ~IsSome(found))
    /\ UNCHANGED <<files, settings, ortDir, runs, parserVars>>

\* ORTWrapper.clearCache
clearCache(fs, exists) == IF exists THEN rmSync(fs, OrtPaths) ELSE fs

\* the command ort-insight.clearCache: the answer to the warning, and whether
\* the directory can be removed (rmSync throws when it cannot)
ClearCacheCommand(answer, removable) ==
    /\ lastCommand.n < MaxCommands
    /\ IF answer /= "Yes"
       THEN /\ lastCommand' = Command("clearCache", answer, "declined", "none",
                                      lastCommand.cleared)
            /\ UNCHANGED <<files, ortDir, uiVars>>
       ELSE IF ortDir /\ ~removable
       THEN /\ lastCommand' = Command("clearCache", answer, "failed", "none",
                                      lastCommand.cleared)
            /\ UNCHANGED <<files, ortDir, uiVars>>
       ELSE /\ files' = clearCache(files, ortDir)
            /\ ortDir' = FALSE
            /\ treeData' = <<>>
            /\ changeEvents' = changeEvents + 1
            /\ diagnosticCollection' = <<>>
            /\ statusBarText' = statusBarLoadResults(config, files', noPath)
            /\ lastCommand' = Command("clearCache", answer, "cleared", "none", TRUE)
            /\ UNCHANGED <<packageLicenseMap, lastResult>>
    /\ UNCHANGED <<settings, runs, parserVars>>

\* onDidOpenTextDocument, onDidSaveTextDocument, onDidChangeTextDocument
DocumentEvent(kind, document) ==
    /\ lastCommand.n < MaxCommands
    /\ diagnosticCollection' =
           updateDiagnostics(diagnosticCollection, packageLicenseMap, settings, document)
    /\ lastCommand' = Command(kind, "none", "none", document.uri, lastCommand.cleared)
    /\ UNCHANGED <<files, settings, ortDir, runs, parserVars, treeData, changeEvents,
                   statusBarText, packageLicenseMap, lastResult>>

\* the result file is written anew from outside the extension
WriteResultFile(content, mtime) ==
    /\ files[analyzerResultFile] /= OrtFile(content.text, content.size, mtime, 0)
    /\ files' = [files EXCEPT ![analyzerResultFile] =
                    OrtFile(content.text, content.size, mtime, 0)]
    /\ ortDir' = TRUE
    /\ UNCHANGED <<settings, runs, parserVars, uiVars, lastCommand>>

NextDiag ==
    \/ RefreshTree
    \/ \E answer \in {"Yes", "No", "dismissed"}, removable \in BOOLEAN :
           ClearCacheCommand(answer, removable)
    \/ \E kind \in {"open", "save", "change"}, i \in 1..Len(textDocuments) :
           DocumentEvent(kind, textDocuments[i])
    \/ \E content \in ResultContents, mtime \in 1..MaxMtime : WriteResultFile(content, mtime)
    \/ UpdateSettings([settings EXCEPT !.enableDiagnostics = ~@])

SpecDiag == InitDiag /\ [][NextDiag]_vars

-----------------------------------------------------------------------------
(* ORTWrapper.executeCommand, runAnalyzer and runAdvisor *)

MaxRuns == 2         \* runAnalyzer and runAdvisor invocations of a behaviour
MinResultSize == 100 \* a result file of more bytes counts as written

\* an invocation that has spawned its process: promise is the state of the
\* promise of executeCommand, first the first event its handlers received,
\* wrote what the process has written, found the file at the result path
\* when runAnalyzer returned or threw
NewRun(op) ==
    [op |-> op, pc |-> "awaiting", promise |-> "pending", timer |-> "armed",
     child |-> "running", killed |-> FALSE, first |-> "none", wrote |-> "nothing",
     returned |-> None, thrown |-> None, found |-> NoFile]

\* an invocation whose rmSync threw before any process was spawned
FailedStart(op, pc) ==
    [op |-> op, pc |-> pc, promise |-> "none", timer |-> "none",
     child |-> "none", killed |-> FALSE, first |-> "none", wrote |-> "nothing",
     returned |-> None, thrown |-> Some(<<"EPERM: operation not permitted, rmdir">>),
     found |-> NoFile]

\* resolve() and reject(): a promise that is settled stays as it is
settle_LastWins(promise, outcome) == outcome

settle(promise, outcome) == IF promise = "pending" THEN outcome ELSE promise

\* the exit codes 'close' may carry; null when a signal ended the process
ExitCodes == {"0", "1", "null"}

\* the 'close' event as its handler tells it apart: code === 0 or not
closeEvent(code) == IF code = "0" THEN "close:0" ELSE "close:other"

\* what each handler of executeCommand passes to resolve or reject
outcomeOf(event) ==
    IF event = "timer" THEN "timedOut"
    ELSE IF event = "close:0" THEN "resolved"
    ELSE IF event = "close:other" THEN "exited"
    ELSE "spawnError"

\* the message of the Error a rejected promise carries
messageOf(promise) ==
    IF promise = "timedOut" THEN "Command timed out after"
    ELSE IF promise = "exited" THEN "Command exited with code"
    ELSE "spawn ENOENT"

Outcome(returned, thrown) == [returned |-> returned, thrown |-> thrown]

runAnalyzerOutcome_NoFallback(fs, promise) ==
    IF promise = "resolved" THEN Outcome(Some(analyzerResultFile), None)
    ELSE Outcome(None, Some(<<"ORT Analyzer failed: ", messageOf(promise)>>))

\* ORTWrapper.runAnalyzer from the settling of the promise on
runAnalyzerOutcome(fs, promise) ==
    IF promise = "resolved" THEN Outcome(Some(analyzerResultFile), None)
    ELSE IF /\ pathExists(fs, analyzerResultFile)
            /\ fs[analyzerResultFile].size > MinResultSize
    THEN Outcome(Some(analyzerResultFile), None)
    ELSE Outcome(None, Some(<<"ORT Analyzer failed: ", messageOf(promise)>>))

runAdvisorOutcome_ResultFile(fs, promise) == Outcome(Some(advisorResultFile), None)

\* ORTWrapper.runAdvisor from the settling of the promise on
runAdvisorOutcome(fs, promise) ==
    IF promise = "resolved"
    THEN IF pathExists(fs, advisorResultFile) THEN Outcome(Some(advisorResultFile), None)
         ELSE IF pathExists(fs, advisorOtherFile) THEN Outcome(Some(advisorOtherFile), None)
         ELSE Outcome(Some(advisorResultFile), None)
    ELSE Outcome(Some(noPath), None)

\* the command from the return or throw of the wrapper on: runAnalyzer loads
\* a returned path and awaits the dismissal of the error message otherwise;
\* checkAdvisories loads a path that is not ''
pcAfter(op, outcome) ==
    IF op = "analyzer"
    THEN IF IsSome(outcome.returned) THEN "loaded" ELSE "reporting"
    ELSE IF Get(outcome.returned) /= noPath THEN "loaded" ELSE "skipped"

\* a handler of executeCommand has run for invocation i, leaving it as
\* handled; when this settles the promise, the awaiting wrapper and command
\* continue before any other handler runs
Deliver(i, handled) ==
    IF runs[i].promise = "pending" /\ handled.promise /= "pending"
    THEN LET outcome == IF handled.op = "analyzer"
                        THEN runAnalyzerOutcome(files, handled.promise)
                        ELSE runAdvisorOutcome(files, handled.promise)
             pc == pcAfter(handled.op, outcome)
         IN /\ runs' = [runs EXCEPT ![i] =
                           [handled EXCEPT !.pc = pc,
                                           !.returned = outcome.returned,
                                           !.thrown = outcome.thrown,
                                           !.found = files[analyzerResultFile]]]
            /\ IF pc = "loaded"
               THEN LoadResultsIntoUI(files, Get(outcome.returned))
               ELSE UNCHANGED uiVars
    ELSE /\ runs' = [runs EXCEPT ![i] = handled]
         /\ UNCHANGED uiVars

\* what an ORT process may leave at its result path: a complete result or
\* the first MinResultSize bytes of one
ProcessOutputs ==
    {[text |-> Render(docLicenses), size |-> 2048, wrote |-> "complete"],
     [text |-> SubSeq(Render(docLicenses), 1, 1), size |-> MinResultSize, wrote |-> "partial"]}

-----------------------------------------------------------------------------
(* SpecRun: the analyze and check-advisories commands with their processes   *)

\* a workspace without the result of an earlier session
InitRun ==
    /\ config = getConfiguration(DefaultSettings)
    /\ ClassifierIdle
    /\ ParserIdle
    /\ parseOutcome = NoOutcome
    /\ changeEvents = 0
    /\ lastCall = NoCall
    /\ settings = DefaultSettings
    /\ ortDir = FALSE
    /\ files = EmptyOrtDir
    /\ ProvidersConstructed

\* the command ort-insight.analyze up to the await of executeCommand:
\* showScanning, then runAnalyzer empties .ort and spawns `ort analyze`
AnalyzeCommand(removable) ==
    /\ Len(runs) < MaxRuns
    /\ statusBarText' = Scanning
    /\ IF ortDir /\ ~removable
       THEN /\ runs' = Append(runs, FailedStart("analyzer", "reporting"))
            /\ UNCHANGED <<files, ortDir>>
       ELSE /\ files' = rmSync(files, OrtPaths)
            /\ ortDir' = TRUE
            /\ runs' = Append(runs, NewRun("analyzer"))
    /\ UNCHANGED <<settings, parserVars, lastCommand, treeData, changeEvents,
                   packageLicenseMap, lastResult, diagnosticCollection>>

\* the command ort-insight.checkAdvisories up to the await of executeCommand:
\* with a latest result, runAdvisor empties .ort/advisor and spawns `ort advise`
CheckAdvisoriesCommand(removable) ==
    /\ Len(runs) < MaxRuns
    /\ IsSome(findLatestResult(files))
    /\ IF (\E path \in AdvisorPaths : pathExists(files, path)) /\ ~removable
       THEN /\ runs' = Append(runs, FailedStart("advisor", "failed"))
            /\ UNCHANGED files
       ELSE /\ files' = rmSync(files, AdvisorPaths)
            /\ runs' = Append(runs, NewRun("advisor"))
    /\ UNCHANGED <<settings, ortDir, parserVars, lastCommand, uiVars>>

\* the process of invocation i writes its result
ProcessWrites(i, path, output) ==
    /\ runs[i].child = "running"
    /\ runs[i].first /= "error"
    /\ runs[i].wrote = "nothing"
    /\ path \in (IF runs[i].op = "analyzer" THEN {analyzerResultFile} ELSE AdvisorPaths)
    /\ runs[i].op = "advisor" => output.wrote = "complete"
    /\ files' = [files EXCEPT ![path] = OrtFile(output.text, output.size, i, i)]
    /\ ortDir' = TRUE
    /\ runs' = [runs EXCEPT ![i].wrote = output.wrote]
    /\ UNCHANGED <<settings, parserVars, lastCommand, uiVars>>

\* the timer of executeCommand expires: kill, reject
TimerExpires(i) ==
    /\ runs[i].timer = "armed"
    /\ Deliver(i, [runs[i] EXCEPT !.timer = "fired",
                                  !.killed = TRUE,
                                  !.first = IF @ = "none" THEN "timer" ELSE @,
                                  !.promise = settle(@, outcomeOf("timer"))])
    /\ UNCHANGED <<settings, parserVars, lastCommand, files, ortDir>>

\* 'close': clearTimeout, resolve on code 0, reject otherwise; `ort analyze`
\* exits with code 0 only after it has written its result
ProcessCloses(i, code) ==
    /\ runs[i].child = "running"
    /\ (runs[i].op = "analyzer" /\ code = "0") => runs[i].wrote = "complete"
    /\ Deliver(i, [runs[i] EXCEPT !.timer = IF @ = "armed" THEN "cleared" ELSE @,
                                  !.child = "closed",
                                  !.first = IF @ = "none" THEN closeEvent(code) ELSE @,
                                  !.promise = settle(@, outcomeOf(closeEvent(code)))])
    /\ UNCHANGED <<settings, parserVars, lastCommand, files, ortDir>>

\* 'error': clearTimeout, reject; the process could not be spawned, which
\* is the first thing its handlers learn; 'close' may follow
ProcessError(i) ==
    /\ runs[i].child = "running"
    /\ runs[i].wrote = "nothing"
    /\ runs[i].first = "none"
    /\ Deliver(i, [runs[i] EXCEPT !.timer = IF @ = "armed" THEN "cleared" ELSE @,
                                  !.first = IF @ = "none" THEN "error" ELSE @,
                                  !.promise = settle(@, outcomeOf("error"))])
    /\ UNCHANGED <<settings, parserVars, lastCommand, files, ortDir>>

\* the user dismisses 'ORT Analysis failed: ...': statusBarProvider.loadResults('')
DismissError(i) ==
    /\ runs[i].pc = "reporting"
    /\ runs' = [runs EXCEPT ![i].pc = "failed"]
    /\ statusBarText' = statusBarLoadResults(config, files, noPath)
    /\ UNCHANGED <<settings, parserVars, lastCommand, files, ortDir, treeData,
                   changeEvents, packageLicenseMap, lastResult, diagnosticCollection>>

NextRun ==
    \/ \E removable \in BOOLEAN : AnalyzeCommand(removable)
    \/ \E removable \in BOOLEAN : CheckAdvisoriesCommand(removable)
    \/ \E i \in DOMAIN runs, path \in OrtPaths, output \in ProcessOutputs :
           ProcessWrites(i, path, output)
    \/ \E i \in DOMAIN runs : TimerExpires(i)
    \/ \E i \in DOMAIN runs, code \in ExitCodes :
           ProcessCloses(i, code)
    \/ \E i \in DOMAIN runs : ProcessError(i)
    \/ \E i \in DOMAIN runs : DismissError(i)

SpecRun == InitRun /\ [][NextRun]_vars

-----------------------------------------------------------------------------
(* Claims about the diagnostics and the clear-cache command *)

\* a step that is the n-th command or event, of one of the given kinds
CommandStep(ops) == lastCommand'.n = lastCommand.n + 1 /\ lastCommand'.op \in ops

\* the claim of C23 about a clear-cache step
ClearCacheEffect(removed) ==
    CommandStep({"clearCache"}) =>
        IF lastCommand'.answer /= "Yes"
        THEN UNCHANGED <<ortDir, files, treeData, diagnosticCollection, statusBarText>>
        ELSE removed =>
                /\ ortDir' = FALSE
                /\ \A path \in OrtPaths : ~pathExists(files', path)
                /\ treeData' = <<>>
                /\ diagnosticCollection' = <<>>
                /\ statusBarText' = NoResults
                /\ findLatestResult(files') = None

C24_NoDiagnosticsAfterClear ==
    lastCommand.cleared =>
        \A uri \in DOMAIN diagnosticCollection : diagnosticCollection[uri] = <<>>

\* C26: every published diagnostic is for an import whose recorded risk is
\* strong-copyleft, with severity Error, or weak-copyleft or proprietary, with
\* severity Warning, never permissive or unknown; and a document event that
\* finds enableDiagnostics false leaves the document without diagnostics.
C26_OnlyProblematicLicenses ==
    /\ [](\A uri \in DOMAIN diagnosticCollection :
            \A k \in 1..Len(diagnosticCollection[uri]) :
                LET diagnostic == diagnosticCollection[uri][k] IN
                /\ diagnostic.name \in DOMAIN packageLicenseMap
                /\ \/ /\ packageLicenseMap[diagnostic.name].risk = "strong-copyleft"
                      /\ diagnostic.severity = "Error"
                   \/ /\ packageLicenseMap[diagnostic.name].risk
                             \in {"weak-copyleft", "proprietary"}
                      /\ diagnostic.severity = "Warning")
    /\ [][(CommandStep({"open", "save", "change"}) /\ ~settings.enableDiagnostics)
             => lastCommand'.document \notin DOMAIN diagnosticCollection']_vars

\* main.ts imports a (MIT), b (GPL-3.0-only), c (LGPL-3.0) and z (no package):
\* b and c are reported; diagnostics are then switched off and NOTES.md saved
C26_Witness ==
    /\ lastCommand.op = "save"
    /\ lastCommand.document = "NOTES.md"
    /\ ~settings.enableDiagnostics
    /\ DOMAIN diagnosticCollection = {"src/main.ts"}
    /\ DOMAIN packageLicenseMap = {<<"a">>, <<"b">>, <<"c">>}
    /\ diagnosticCollection["src/main.ts"]
          = <<Diagnostic(1, <<"b">>, "Error",
                         <<"Strong copyleft license detected:", sGPL3only>>),
              Diagnostic(1, <<"c">>, "Warning",
                         <<"Weak copyleft license detected:", sLGPL3>>)>>

\* C29: after DiagnosticsProvider.loadResults(f) returns for an existing file
\* f, the map holds the packages of f's contents; a load that fails to parse
\* leaves the map and the recorded file and time as they were.
C29_MapOfCurrentContents ==
    [][(CommandStep({"refreshTree"}) /\ pathExists(files, analyzerResultFile)) =>
          LET outcome == parseResultFile(files, analyzerResultFile) IN
          IF outcome.thrown = None
          THEN packageLicenseMap'
                   = buildPackageLicenseMap(config, asORTResult(Get(outcome.returned)))
          ELSE packageLicenseMap' = packageLicenseMap /\ lastResult' = lastResult]_vars

-----------------------------------------------------------------------------
(* Claims about the ORT processes *)

Spawned == {i \in DOMAIN runs : runs[i].promise /= "none"}

\* C21: the promise of executeCommand is pending until the first event and
\* from then on holds the outcome of that first event: timed out for the
\* timer, which kills the child, resolved for close with code 0, rejected for
\* close with another or no code and for a spawn error; a later event does not
\* change it, after close or error the timer is no longer armed, and while
\* the child has neither closed nor failed the timer stays armed, its expiry
\* being the step that kills the child.
C21_SettlesOnceWithFirstEvent ==
    /\ [](\A i \in Spawned :
            LET run == runs[i] IN
            /\ run.first = "none" <=> run.promise = "pending"
            /\ run.first /= "none" => run.promise = outcomeOf(run.first)
            /\ run.promise = "pending" <=> run.pc = "awaiting"
            /\ run.promise = "pending" => run.timer = "armed" /\ run.child = "running"
            /\ run.killed <=> run.timer = "fired"
            /\ run.killed => run.promise = "timedOut"
            /\ (run.child = "closed" \/ run.first \in {"close:0", "close:other", "error"})
                  => run.timer /= "armed")
    /\ [][\A i \in DOMAIN runs :
             (runs[i].promise \notin {"none", "pending"})
                 => /\ runs'[i].promise = runs[i].promise
                    /\ runs'[i].first = runs[i].first
                    /\ runs'[i].killed = runs[i].killed]_vars

\* the timer expired first, the child was killed and its close came later
C21_Witness ==
    \E i \in Spawned :
        /\ runs[i].first = "timer"
        /\ runs[i].promise = "timedOut"
        /\ runs[i].killed
        /\ runs[i].child = "closed"
        /\ runs[i].pc = "failed"

AnalyzerRuns == {i \in Spawned : runs[i].op = "analyzer" /\ runs[i].promise /= "pending"}
AdvisorRuns == {i \in Spawned : runs[i].op = "advisor" /\ runs[i].promise /= "pending"}

FoundWritten(run) == run.found.kind /= "missing" /\ run.found.size > MinResultSize

C27_AdvisorFailureLoadsNothing ==
    /\ [](\A i \in AdvisorRuns :
            LET run == runs[i] IN
            /\ run.thrown = None
            /\ run.promise /= "resolved" => run.returned = Some(noPath)
            /\ run.pc = "loaded" <=> (run.returned /= Some(noPath))
            /\ run.pc = "skipped" <=> (run.returned = Some(noPath)))
    /\ [][\A i \in DOMAIN runs :
             (/\ runs[i].op = "advisor"
              /\ runs[i].promise = "pending"
              /\ runs'[i].promise \notin {"pending", "resolved"})
                 => UNCHANGED uiVars]_vars

\* the result of an analysis is loaded, then the advisor times out
C27_Witness ==
    /\ Len(runs) = 2
    /\ runs[1].op = "analyzer"
    /\ runs[1].pc = "loaded"
    /\ runs[2].op = "advisor"
    /\ runs[2].promise = "timedOut"
    /\ runs[2].returned = Some(noPath)
    /\ runs[2].pc = "skipped"
    /\ treeData /= <<>> \/ DOMAIN packageLicenseMap /= {}
    /\ statusBarText \notin {NotAnalyzed, Scanning, NoResults, ErrorLoading}

\* C30: whenever runAnalyzer returns a path, the file at that path was
\* written by the process of that same invocation, also when two invocations
\* overlap.
C30_ResultOfThisRun ==
    \A i \in AnalyzerRuns :
        IsSome(runs[i].returned) =>
            runs[i].found.kind /= "missing" /\ runs[i].found.writer = i


====
